---------------------------- MODULE Spec2Model ----------------------------
(***************************************************************************)
(* Order-lifecycle reconciliation core of the HunterZ trading bot.         *)
(*                                                                         *)
(* The module holds several specifications over one set of variables, one  *)
(* per part of the program:                                                *)
(*   SpecLock    reconcile_all_positions_tp_sl and its lock (main.py)      *)
(*   SpecRetry   the four placement calls and their retry loop             *)
(*               (execution.py)                                            *)
(*   SpecPlace   place_sl_tp_orders against an exchange order book         *)
(*   SpecStale   handle_stale_pending_orders                               *)
(*   SpecMonitor monitor_and_close_positions                               *)
(*   SpecWorker  the worker's pending-order walk, fills, reconciliation    *)
(* A specification moves only its own variables; the others stay parked.   *)
(*                                                                         *)
(* Prices and amounts are integers (price units, amount steps); relative   *)
(* tolerances are fractions Num/Den compared by cross-multiplication.      *)
(***************************************************************************)
EXTENDS Integers, Sequences, FiniteSets, TLC

VARIABLES
    \* --- reconciliation lock (main.py) ---
    reconLock,      \* 0 when free, else the invoker holding _reconciliation_lock
    rpc,            \* invoker -> position inside reconcile_all_positions_tp_sl
    rtodo,          \* invoker -> positions still to reconcile in its loop
    rinv,           \* invoker -> record of its current/last invocation (observer)
    metrics,        \* state.bot_state.metrics (the counters the model uses)
    logLen,         \* len(state.bot_state.reconciliation_log)
    started,        \* number of invocations started (bounds the run)
    \* --- one placement call (execution.py) ---
    call,           \* the placement call in progress / just returned (observer)
    \* --- exchange order book and its cached mirror ---
    book,           \* open orders on the exchange (ccxt order dicts), oldest first
    cached,         \* state.bot_state.exchange_open_orders
    last,           \* inputs and exchange calls of the last place_sl_tp_orders (observer)
    exFaults,       \* exchange faults so far (lag, refusal, failed attempt, lost order)
    \* --- pending entry orders and the clock (state.py, main.py) ---
    pending,        \* state.bot_state.pending_orders: symbol -> tracked entry order
    now,            \* datetime.now(), in seconds
    staleRun,       \* the last handle_stale_pending_orders run (observer)
    \* --- position mirror and the breach monitor (state.py, main.py) ---
    positions,      \* state.bot_state.positions: symbol -> mirrored position
    trades,         \* state.bot_state.trade_history, the most recent row first
    monitoring,     \* config.ENABLE_ACTIVE_TP_SL_MONITORING
    mon,            \* passes of monitor_and_close_positions so far, and the last one's calls
    \* --- the worker loop and the market it trades (main.py run_bot_logic) ---
    mkt,            \* the exchange's entry order and position for the traded symbol
    wk,             \* the worker's place in its iteration, and what it has done
    \* --- single calls of the program's functions ---
    rcl,            \* the calls of reconcile_position_tp_sl so far, and the last one's outcome
    ns,             \* a symbol handed to normalize_symbol, and what came back
    \* --- the worker's cycle over its symbols (main.py 820-1084) ---
    cyc,            \* where the cycle stands, and what it has processed
    \* --- order_utils: the backoff table and safe_place_tp_sl ---
    sp,             \* state.bot_state.tp_sl_backoff, and the last safe_place_tp_sl call
    dur,            \* the persisted structures in memory and their files under data/
    rd,             \* an HTTP handler iterating a container of bot_state
    itr,            \* one iteration of the worker around the breach monitor
    rlog,           \* state.bot_state.reconciliation_log, entry by entry
    bal,            \* state.bot_state.balance_history and its file
    thr,            \* order_utils._throttle_state and the last should_log_throttled call
    plan,           \* a call of risk_manager.calculate_trade_params
    obc             \* a call of lux_algo.detect_order_blocks

lockVars == <<reconLock, rpc, rtodo, rinv, started>>
storeVars == <<metrics, logLen>>
retryVars == <<call>>
\* what each part of the program leaves alone
bookVars == <<book, cached, last, exFaults>>
staleVars == <<pending, now, staleRun>>
monVars == <<positions, trades, monitoring, mon>>
workVars == <<mkt, wk>>
moreVars == <<itr, rlog, bal, thr, plan, obc>>
unitVars == <<rcl, ns, cyc, sp, dur, rd, moreVars>>
notCyc == <<rcl, ns, sp, dur, rd, moreVars, lockVars, storeVars, retryVars, bookVars, staleVars, monVars, workVars>>
notLock == <<retryVars, bookVars, staleVars, monVars, workVars, unitVars>>
notRetry == <<lockVars, bookVars, staleVars, monVars, workVars, unitVars>>
notBook == <<lockVars, retryVars, staleVars, monVars, workVars, unitVars>>
notStale == <<lockVars, retryVars, bookVars, monVars, workVars, unitVars>>
notMon == <<lockVars, retryVars, staleVars, workVars, unitVars>>
notWork == <<lockVars, retryVars, last, now, staleRun, monitoring, mon, unitVars>>
vars == <<reconLock, rpc, rtodo, rinv, metrics, logLen, started, call, book, cached, last,
          exFaults, pending, now, staleRun, positions, trades, monitoring, mon, mkt, wk,
          rcl, ns, cyc, sp, dur, rd, itr, rlog, bal, thr, plan, obc>>

Abs(x) == IF x < 0 THEN -x ELSE x
Max(a, b) == IF a >= b THEN a ELSE b
Min(a, b) == IF a <= b THEN a ELSE b

(***************************************************************************)
(* Bounds of the model.                                                    *)
(***************************************************************************)
NumInvokers == 2        \* concurrent callers of reconcile_all_positions_tp_sl
MaxInvocations == 4     \* invocations started in one behaviour
MaxPositions == 2       \* positions returned by get_all_positions
MaxBook == 2            \* open orders on the exchange at a time
MaxCalls == 2           \* place_sl_tp_orders calls in one behaviour
MaxFaults == 1          \* exchange faults in one behaviour
MaxTicks == 4           \* clock advances in one behaviour
MaxEntries == 3         \* entry orders tracked in one behaviour
MaxMirrored == 1        \* positions in the mirror at a time
MaxPasses == 2          \* passes of the breach monitor in one behaviour
MaxIterations == 3      \* iterations of the worker loop in one behaviour
MaxOrders == 2          \* entry orders the worker places in one behaviour
MaxRestarts == 1        \* restarts of the process in one behaviour
MaxAfterRestart == 1    \* iterations of the worker loop after a restart
MaxCloses == 1          \* closes of the position on the exchange in one behaviour

(***************************************************************************)
(* Program constants.                                                      *)
(***************************************************************************)
MAX_RECONCILIATION_LOG_ENTRIES == 50
MAX_ORDER_RETRIES == 3
\* tolerances as fractions: PRICE_TOLERANCE_PCT = 1/1000,
\* QUANTITY_TOLERANCE_PCT = TP_SL_QUANTITY_TOLERANCE = 1/100
PRICE_TOL_DEN == 1000
QTY_TOL_DEN == 100
PENDING_ORDER_STALE_SECONDS == 900
TP_SL_QUANTITY_TOLERANCE_DEN == 100
RR_RATIO == 2

(***************************************************************************)
(* State store: metrics and the reconciliation log (state.py).             *)
(***************************************************************************)
MetricsInit ==
    [ reconciliation_runs_count |-> 0,
      reconciliation_skipped_count |-> 0,
      duplicate_placement_attempts |-> 0,
      pending_order_stale_count |-> 0,
      cancelled_orders_count |-> 0,
      filled_orders_count |-> 0,
      placed_orders_count |-> 0 ]

\* add_reconciliation_log / add_forced_closure_log: head insert, keep 50.
add_reconciliation_log(n) == Min(n + 1, MAX_RECONCILIATION_LOG_ENTRIES)

StoreInit == metrics = MetricsInit /\ logLen = 0

(***************************************************************************)
(* reconcile_all_positions_tp_sl (main.py 522-588).                        *)
(***************************************************************************)
Invokers == 1..NumInvokers

Holding == {"acquired", "fetch", "loop", "except", "finally"}

RInvIdle == [skipped |-> FALSE, calls |-> 0, done |-> FALSE, failed |-> 0]

LockInit ==
    /\ reconLock = 0
    /\ rpc = [t \in Invokers |-> "idle"]
    /\ rtodo = [t \in Invokers |-> 0]
    /\ rinv = [t \in Invokers |-> RInvIdle]
    /\ started = 0

LockParked == LockInit

LockAcquireAlways(lock, t) == [ok |-> TRUE, lock |-> t]

\* _reconciliation_lock.acquire(blocking=False)
LockAcquire(lock, t) ==
    IF lock = 0 THEN [ok |-> TRUE, lock |-> t] ELSE [ok |-> FALSE, lock |-> lock]

SkippedPathMetricsAlsoRuns(m) ==
    [m EXCEPT !.reconciliation_skipped_count = @ + 1,
              !.reconciliation_runs_count = @ + 1]

\* state.bot_state.metrics.reconciliation_skipped_count += 1
SkippedPathMetrics(m) == [m EXCEPT !.reconciliation_skipped_count = @ + 1]

\* state.bot_state.metrics.reconciliation_runs_count += 1
RunPathMetrics(m) == [m EXCEPT !.reconciliation_runs_count = @ + 1]

\* The call: the non-blocking acquire decides between the two paths.
TryAcquire(t) ==
    /\ rpc[t] = "idle"
    /\ started < MaxInvocations
    /\ started' = started + 1
    /\ LET a == LockAcquire(reconLock, t) IN
         /\ reconLock' = a.lock
         /\ rpc' = [rpc EXCEPT ![t] = IF a.ok THEN "acquired" ELSE "skip"]
         /\ rinv' = [rinv EXCEPT ![t] = [skipped |-> ~a.ok, calls |-> 0, done |-> FALSE,
                                        failed |-> rinv[t].failed]]
    /\ UNCHANGED <<rtodo, metrics, logLen, notLock>>

\* Lock not acquired: count the skip, log it, return.
SkipReturn(t) ==
    /\ rpc[t] = "skip"
    /\ metrics' = SkippedPathMetrics(metrics)
    /\ logLen' = add_reconciliation_log(logLen)
    /\ rpc' = [rpc EXCEPT ![t] = "idle"]
    /\ rinv' = [rinv EXCEPT ![t].done = TRUE]
    /\ UNCHANGED <<reconLock, rtodo, started, notLock>>

\* First statements of the try block.
RunStart(t) ==
    /\ rpc[t] = "acquired"
    /\ metrics' = RunPathMetrics(metrics)
    /\ logLen' = add_reconciliation_log(logLen)
    /\ rpc' = [rpc EXCEPT ![t] = "fetch"]
    /\ UNCHANGED <<reconLock, rtodo, rinv, started, notLock>>

\* positions = client.get_all_positions(): an exchange call that returns n
\* positions or raises.
FetchPositions(t) ==
    /\ rpc[t] = "fetch"
    /\ rinv' = [rinv EXCEPT ![t].calls = @ + 1]
    /\ \E raised \in BOOLEAN, n \in 0..MaxPositions :
         /\ rpc' = [rpc EXCEPT ![t] = IF raised THEN "except" ELSE "loop"]
         /\ rtodo' = [rtodo EXCEPT ![t] = IF raised THEN 0 ELSE n]
    /\ UNCHANGED <<reconLock, metrics, logLen, started, notLock>>

\* One pass of the for loop: update_position, get_pending_order,
\* reconcile_position_tp_sl (exchange calls); update_position may raise.
ReconcileOne(t) ==
    /\ rpc[t] = "loop"
    /\ rtodo[t] > 0
    /\ rinv' = [rinv EXCEPT ![t].calls = @ + 1]
    /\ \E raised \in BOOLEAN :
         /\ rpc' = [rpc EXCEPT ![t] = IF raised THEN "except" ELSE "loop"]
         /\ rtodo' = [rtodo EXCEPT ![t] = IF raised THEN 0 ELSE @ - 1]
    /\ UNCHANGED <<reconLock, metrics, logLen, started, notLock>>

\* Loop finished: log position_reconciliation_complete.
LoopDone(t) ==
    /\ rpc[t] = "loop"
    /\ rtodo[t] = 0
    /\ logLen' = add_reconciliation_log(logLen)
    /\ rpc' = [rpc EXCEPT ![t] = "finally"]
    /\ UNCHANGED <<reconLock, rtodo, rinv, metrics, started, notLock>>

\* except Exception: log position_reconciliation_error.
HandleError(t) ==
    /\ rpc[t] = "except"
    /\ logLen' = add_reconciliation_log(logLen)
    /\ rpc' = [rpc EXCEPT ![t] = "finally"]
    /\ rinv' = [rinv EXCEPT ![t].failed = @ + 1]
    /\ UNCHANGED <<reconLock, rtodo, metrics, started, notLock>>

\* a finally block that leaves the lock held
ReleaseKeepsLock(t) ==
    /\ rpc[t] = "finally"
    /\ rpc' = [rpc EXCEPT ![t] = "idle"]
    /\ rinv' = [rinv EXCEPT ![t].done = TRUE]
    /\ UNCHANGED <<reconLock, rtodo, metrics, logLen, started, notLock>>

\* finally: _reconciliation_lock.release()
Release(t) ==
    /\ rpc[t] = "finally"
    /\ reconLock' = 0
    /\ rpc' = [rpc EXCEPT ![t] = "idle"]
    /\ rinv' = [rinv EXCEPT ![t].done = TRUE]
    /\ UNCHANGED <<rtodo, metrics, logLen, started, notLock>>

LockNext ==
    \E t \in Invokers :
        \/ TryAcquire(t)
        \/ SkipReturn(t)
        \/ RunStart(t)
        \/ FetchPositions(t)
        \/ ReconcileOne(t)
        \/ LoopDone(t)
        \/ HandleError(t)
        \/ Release(t)


(***************************************************************************)
(* Placement calls and their retry loop (execution.py 90-131, 271-418,     *)
(* 680-726).                                                                *)
(*                                                                         *)
(* One create_order attempt ends with a response (None, or a dict whose    *)
(* id fields may be missing, empty, zero or valid) or with an exception    *)
(* whose text contains some of the substrings _is_transient_error looks    *)
(* for.  Of the four id fields _validate_order_response reads, the model   *)
(* carries two (id, orderId); the other two are read the same way.         *)
(***************************************************************************)
IdVals == {"missing", "empty", "zero", "A1"}
OtherIdVals == {"missing", "B1"}

Responses ==
    {[kind |-> "resp", none |-> TRUE, id |-> "missing", orderId |-> "missing"]}
    \cup [kind : {"resp"}, none : {FALSE}, id : IdVals, orderId : OtherIdVals]

Errors ==
    { [kind |-> "error", text |-> "Connection timeout", has |-> {"timeout", "connection"}],
      [kind |-> "error", text |-> "429 Too Many Requests", has |-> {"429", "too many requests"}],
      [kind |-> "error", text |-> "Insufficient funds", has |-> {}],
      [kind |-> "error", text |-> "Reduce only order is rejected", has |-> {}] }

Outcomes == Responses \cup Errors

NoneResult == [kind |-> "none"]

\* Python truthiness of an id field: None/missing, "" and 0 are falsy.
Truthy(v) == v \notin {"missing", "empty", "zero"}

\* _validate_order_response(resp): resp when some id field is truthy, else None.
validate_order_response(resp) ==
    IF resp.kind # "resp" \/ resp.none THEN NoneResult
    ELSE IF Truthy(resp.id) \/ Truthy(resp.orderId) THEN resp
    ELSE NoneResult

transient_indicators ==
    {"timeout", "network", "connection", "temporary", "rate limit",
     "too many requests", "429", "503", "504"}

\* _is_transient_error(error)
is_transient_error(e) == e.kind = "error" /\ (e.has \cap transient_indicators) # {}

\* A reduce-only rejection of the exchange (vendor text).
IsReduceOnlyRejection(e) == e.kind = "error" /\ e.text = "Reduce only order is rejected"

RECURSIVE RetryLoopRetryAll(_, _)
RetryLoopRetryAll(outs, attempt) ==
    LET o == outs[attempt + 1] IN
    IF o.kind = "resp" /\ validate_order_response(o) # NoneResult
    THEN [result |-> o, attempts |-> attempt + 1]
    ELSE IF attempt < MAX_ORDER_RETRIES - 1
         THEN RetryLoopRetryAll(outs, attempt + 1)
         ELSE [result |-> NoneResult, attempts |-> attempt + 1]

\* for attempt in range(MAX_ORDER_RETRIES): try create_order ... except ...
\* outs[k] is what the k-th create_order does; the loop is the same in
\* place_limit_order, place_stop_loss, place_take_profit, close_position_market.
RECURSIVE RetryLoop(_, _)
RetryLoop(outs, attempt) ==
    LET o == outs[attempt + 1] IN
    IF o.kind = "resp"
    THEN IF validate_order_response(o) # NoneResult
         THEN [result |-> validate_order_response(o), attempts |-> attempt + 1]
         ELSE IF attempt < MAX_ORDER_RETRIES - 1
              THEN RetryLoop(outs, attempt + 1)
              ELSE [result |-> NoneResult, attempts |-> attempt + 1]
    ELSE IF is_transient_error(o) /\ attempt < MAX_ORDER_RETRIES - 1
         THEN RetryLoop(outs, attempt + 1)
         ELSE [result |-> NoneResult, attempts |-> attempt + 1]

PlacementKinds == {"limit", "stop_loss", "take_profit", "close_market"}

\* params of the create_order each call issues: reduceOnly is set by
\* place_stop_loss, place_take_profit and close_position_market on every attempt.
CreateParams(kind) == [reduceOnly |-> kind # "limit"]

\* place_limit_order / place_stop_loss / place_take_profit /
\* close_position_market: the result, the number of create_order calls and
\* the params of each.
PlacementCall(kind, outs) ==
    LET r == RetryLoop(outs, 0) IN
    [result |-> r.result, attempts |-> r.attempts,
     creates |-> [k \in 1..r.attempts |-> CreateParams(kind)]]

OutcomeSeqs == [1..MAX_ORDER_RETRIES -> Outcomes]

CallIdle ==
    [phase |-> "idle", kind |-> "none", outs |-> <<>>, attempts |-> 0,
     result |-> NoneResult, creates |-> <<>>]

RetryInit == call = CallIdle
RetryParked == RetryInit

\* A caller runs one placement call to its return.
DoPlacementCall ==
    /\ call.phase = "idle"
    /\ \E kind \in PlacementKinds, outs \in OutcomeSeqs :
         LET r == PlacementCall(kind, outs) IN
         call' = [phase |-> "returned", kind |-> kind, outs |-> outs,
                  attempts |-> r.attempts, result |-> r.result, creates |-> r.creates]
    /\ UNCHANGED <<storeVars, notRetry>>

\* The caller has consumed the result.
CallConsumed ==
    /\ call.phase = "returned"
    /\ call' = CallIdle
    /\ UNCHANGED <<storeVars, notRetry>>

RetryNext == DoPlacementCall \/ CallConsumed


(***************************************************************************)
(* Symbols (utils.py 37-69).  A symbol is a sequence of characters; the    *)
(* model's alphabet keeps one letter per currency code.                    *)
(***************************************************************************)
SymShort == <<"B", "/", "U">>              \* "BTC/USDC"
SymLong == <<"B", "/", "U", ":", "U">>     \* "BTC/USDC:USDC"
SymOther == <<"E", "/", "U">>              \* "ETH/USDC"

RECURSIVE LStrip(_)
LStrip(s) == IF s # <<>> /\ Head(s) = " " THEN LStrip(Tail(s)) ELSE s

RECURSIVE RStrip(_)
RStrip(s) == IF s # <<>> /\ s[Len(s)] = " " THEN RStrip(SubSeq(s, 1, Len(s) - 1)) ELSE s

\* str.split(':')[0]
BeforeColon(s) ==
    LET idx == {i \in 1..Len(s) : s[i] = ":"} IN
    IF idx = {} THEN s
    ELSE SubSeq(s, 1, (CHOOSE i \in idx : \A j \in idx : i <= j) - 1)

\* Python's None where a symbol is expected
NoneSymbol == <<"None">>

\* utils.normalize_symbol: strip, then drop the settlement suffix.
normalize_symbol(symbol) ==
    IF symbol = <<>> \/ symbol = NoneSymbol THEN symbol
    ELSE BeforeColon(RStrip(LStrip(symbol)))

\* str.upper()
UpperSymbol(s) ==
    [i \in 1..Len(s) |-> CASE s[i] = "b" -> "B" [] s[i] = "u" -> "U" [] OTHER -> s[i]]

\* order_utils.normalize_symbol: upper-case, then drop the futures suffix.
order_utils_normalize_symbol(symbol) ==
    IF symbol = <<>> \/ symbol = NoneSymbol THEN symbol
    ELSE BeforeColon(UpperSymbol(symbol))

(***************************************************************************)
(* Order matching (execution.py 17-87).                                    *)
(***************************************************************************)
NoOrder == [id |-> 0]

\* approx_equal(a, b, pct_tol) with pct_tol = 1/den
approx_equal(a, b, den) ==
    IF a = 0 /\ b = 0 THEN TRUE
    ELSE IF a = 0 \/ b = 0 THEN FALSE
    ELSE Abs(a - b) * den <= Max(Abs(a), Abs(b))

\* `x or y` on numbers
Or(x, y) == IF x # 0 THEN x ELSE y

\* order_matches_target(order, target_price, target_qty)
order_matches_target(order, target_price, target_qty) ==
    IF order = NoOrder THEN FALSE
    ELSE LET order_price == Or(order.stopPrice, order.price)
             order_qty == order.amount
         IN  IF order_price = 0 \/ order_qty = 0 THEN FALSE
             ELSE /\ approx_equal(order_price, target_price, PRICE_TOL_DEN)
                  /\ approx_equal(order_qty, target_qty, QTY_TOL_DEN)

FirstIndex(seq, Test(_)) ==
    LET idx == {i \in 1..Len(seq) : Test(seq[i])} IN
    IF idx = {} THEN 0 ELSE CHOOSE i \in idx : \A j \in idx : i <= j

\* _find_matching_reduce_only_from_state(symbol, price, qty, orders):
\* `orders or state.bot_state.exchange_open_orders`, first mapped match.
find_matching_reduce_only_from_state(cache, target_price, target_qty, orders) ==
    LET cached_orders == IF orders # <<>> THEN orders ELSE cache
        Mapped(o) == [id |-> o.order_id, stopPrice |-> Or(o.stop_price, o.price),
                      price |-> o.price, amount |-> o.amount]
        Hit(o) == order_matches_target(Mapped(o), target_price, target_qty)
        i == FirstIndex(cached_orders, Hit)
    IN  IF i = 0 THEN NoOrder ELSE Mapped(cached_orders[i])

(***************************************************************************)
(* Exchange orders, the cache, TP/SL classification (execution.py 515-660, *)
(* state.py 80-104).                                                       *)
(***************************************************************************)
\* str(order.get('type', '')).upper()
Upper(t) ==
    CASE t = "limit" -> "LIMIT"
      [] t = "market" -> "MARKET"
      [] OTHER -> t

TP_SL_ORDER_TYPES ==
    {"STOP", "STOP_MARKET", "STOP_LIMIT",
     "TAKE_PROFIT", "TAKE_PROFIT_MARKET", "TAKE_PROFIT_LIMIT"}

\* 'STOP' in order_type / 'TAKE_PROFIT' in order_type
HasSTOP(t) == t \in {"STOP", "STOP_MARKET", "STOP_LIMIT"}
HasTAKE_PROFIT(t) == t \in {"TAKE_PROFIT", "TAKE_PROFIT_MARKET", "TAKE_PROFIT_LIMIT"}

\* the order the exchange holds after an accepted create_order
NewOrder(id, symbol, type, price, amount, ro) ==
    [id |-> id, symbol |-> symbol, type |-> type, price |-> price,
     stopPrice |-> IF type = "limit" THEN 0 ELSE price, amount |-> amount,
     reduceOnly |-> ro]

\* state.update_exchange_open_orders / _update_state_after_order formatting
FormatOrder(o) ==
    [order_id |-> o.id, symbol |-> o.symbol, type |-> o.type, price |-> o.price,
     amount |-> o.amount, reduce_only |-> o.reduceOnly, stop_price |-> o.stopPrice]

FormatOrders(orders) == [i \in 1..Len(orders) |-> FormatOrder(orders[i])]

\* get_tp_sl_orders_for_position(symbol) on the fetched open orders
get_tp_sl_orders_for_position(orders, symbol) ==
    LET norm_target == normalize_symbol(symbol)
        Mine(o) == o.symbol # <<>> /\ normalize_symbol(o.symbol) = norm_target
        Candidate(o) ==
            o.reduceOnly \/ o.stopPrice > 0 \/ Upper(o.type) \in TP_SL_ORDER_TYPES
        IsSl(o) ==
            /\ Mine(o) /\ Candidate(o)
            /\ \/ (HasSTOP(Upper(o.type)) /\ ~HasTAKE_PROFIT(Upper(o.type)))
               \/ (~HasSTOP(Upper(o.type)) /\ ~HasTAKE_PROFIT(Upper(o.type))
                     /\ o.stopPrice > 0)
        IsTp(o) == Mine(o) /\ Candidate(o) /\ HasTAKE_PROFIT(Upper(o.type))
    IN  [sl_orders |-> SelectSeq(orders, IsSl), tp_orders |-> SelectSeq(orders, IsTp)]

\* smallest id the exchange has not handed out among the orders in sight
FreshId(bk, cache) ==
    LET used == {bk[i].id : i \in 1..Len(bk)} \cup {cache[i].order_id : i \in 1..Len(cache)}
    IN  CHOOSE n \in 1..(Cardinality(used) + 1) : n \notin used

CancelOnExchangeKeeps(bk, id, accepted) == [ok |-> accepted, book |-> bk]

\* exchange.cancel_order(order_id, symbol) as wrapped by cancel_order: the
\* order leaves the book and True comes back, or the exchange raises and
\* the wrapper returns False.
CancelOnExchange(bk, id, accepted) ==
    LET Keep(o) == o.id # id
        there == \E i \in 1..Len(bk) : bk[i].id = id
    IN  IF accepted /\ there THEN [ok |-> TRUE, book |-> SelectSeq(bk, Keep)]
        ELSE [ok |-> FALSE, book |-> bk]

\* exchange.fetch_open_orders(symbol) through get_open_orders: the open
\* orders of the symbol's market, or [] when the fetch fails or lags.
get_open_orders(bk, symbol, answered) ==
    LET SameMarket(o) == normalize_symbol(o.symbol) = normalize_symbol(symbol)
    IN  IF answered THEN SelectSeq(bk, SameMarket) ELSE <<>>

\* state.update_exchange_open_orders(client.get_all_open_orders())
update_exchange_open_orders(bk) == FormatOrders(bk)

\* _update_state_after_order(symbol, order)
update_state_after_order(bk, cache, symbol, answered) ==
    LET Other(o) == o.symbol # symbol
    IN  SelectSeq(cache, Other) \o FormatOrders(get_open_orders(bk, symbol, answered))

(***************************************************************************)
(* place_sl_tp_orders (execution.py 429-513).                              *)
(***************************************************************************)
\* what the create_order attempts of one place_stop_loss / place_take_profit
\* do, and what its retry loop makes of them
PlaceOkResp == [kind |-> "resp", none |-> FALSE, id |-> "A1", orderId |-> "missing"]
PlaceTimeout == [kind |-> "error", text |-> "Connection timeout", has |-> {"timeout", "connection"}]
PlaceRefused == [kind |-> "error", text |-> "Insufficient funds", has |-> {}]

PlaceOutcomeSeqs ==
    { <<PlaceOkResp, PlaceOkResp, PlaceOkResp>>,
      <<PlaceTimeout, PlaceOkResp, PlaceOkResp>>,
      <<PlaceRefused, PlaceOkResp, PlaceOkResp>>,
      <<PlaceTimeout, PlaceTimeout, PlaceTimeout>> }

PlaceRuns == {RetryLoop(outs, 0) : outs \in PlaceOutcomeSeqs}

\* _select_matching_order(candidates, target_price, target_qty)
select_matching_order(candidates, target_price, target_qty) ==
    LET Hit(o) == order_matches_target(o, target_price, target_qty)
        i == FirstIndex(candidates, Hit)
    IN  IF candidates = <<>> THEN NoOrder
        ELSE IF i # 0 THEN candidates[i]
        ELSE candidates[1]

\* lines 458-476: the legs place_sl_tp_orders takes as existing
existing_legs(bk, cache, symbol, amount, sl_price, tp_price, answered) ==
    LET existing_tp_sl ==
            get_tp_sl_orders_for_position(get_open_orders(bk, symbol, answered), symbol)
        live_sl == select_matching_order(existing_tp_sl.sl_orders, sl_price, amount)
        live_tp == select_matching_order(existing_tp_sl.tp_orders, tp_price, amount)
        ForSymbol(o) == o.symbol = symbol /\ o.reduce_only
        state_reduce_orders == SelectSeq(cache, ForSymbol)
    IN  [sl |-> IF live_sl # NoOrder THEN live_sl
                ELSE find_matching_reduce_only_from_state(cache, sl_price, amount,
                                                          state_reduce_orders),
         tp |-> IF live_tp # NoOrder THEN live_tp
                ELSE find_matching_reduce_only_from_state(cache, tp_price, amount,
                                                          state_reduce_orders)]

LegAlwaysPlaced(existing, price, amount) == FALSE

\* `existing and order_matches_target(existing, target, amount)`
LegReused(existing, price, amount) ==
    existing # NoOrder /\ order_matches_target(existing, price, amount)

\* lines 482-495 (SL) and 498-511 (TP): reuse the existing leg, or cancel
\* it (the result of cancel_order is not looked at) and place a new one.
\* st is the state the leg starts from; e says what the exchange does.
place_leg(st, existing, symbol, type, price, amount, e) ==
    IF LegReused(existing, price, amount)
    THEN [st EXCEPT !.metrics.duplicate_placement_attempts = @ + 1,
                    !.order = existing]
    ELSE LET c == IF existing # NoOrder
                  THEN CancelOnExchange(st.book, existing.id, e.cancelOK)
                  ELSE [ok |-> FALSE, book |-> st.book]
             ev1 == IF existing # NoOrder
                    THEN Append(st.events, [op |-> "cancel", id |-> existing.id, ok |-> c.ok])
                    ELSE st.events
             placed == e.run.result # NoneResult
             o == NewOrder(FreshId(c.book, st.cached), symbol, type, price, amount, TRUE)
             bk2 == IF placed THEN Append(c.book, o) ELSE c.book
             ev2 == ev1 \o [k \in 1..e.run.attempts |->
                              [op |-> "create", type |-> type, price |-> price,
                               amount |-> amount,
                               ok |-> placed /\ k = e.run.attempts]]
         IN  [book |-> bk2,
              cached |-> IF placed
                         THEN update_state_after_order(bk2, st.cached, symbol, e.refreshOK)
                         ELSE st.cached,
              metrics |-> st.metrics,
              events |-> ev2,
              order |-> IF placed THEN o ELSE NoOrder]

place_sl_tp_orders(bk, cache, m, symbol, amount, sl_price, tp_price, e) ==
    LET ex == existing_legs(bk, cache, symbol, amount, sl_price, tp_price, e.live)
        s0 == [book |-> bk, cached |-> cache, metrics |-> m, events |-> <<>>,
               order |-> NoOrder]
        s1 == place_leg(s0, ex.sl, symbol, "STOP_MARKET", sl_price, amount, e.sl)
        s2 == place_leg(s1, ex.tp, symbol, "TAKE_PROFIT_MARKET", tp_price, amount, e.tp)
    IN  [book |-> s2.book, cached |-> s2.cached, metrics |-> s2.metrics,
         events |-> s2.events,
         result |-> [sl_order |-> s1.order, tp_order |-> s2.order]]

\* the run in which the first create_order is accepted
CleanRun == RetryLoop(<<PlaceOkResp, PlaceOkResp, PlaceOkResp>>, 0)

\* the exchange's part in one leg: only what the leg's path can observe
LegEnvs(existing, price, amount) ==
    IF LegReused(existing, price, amount)
    THEN {[cancelOK |-> TRUE, run |-> CleanRun, refreshOK |-> TRUE]}
    ELSE [cancelOK : IF existing = NoOrder THEN {TRUE} ELSE BOOLEAN,
          run : PlaceRuns, refreshOK : BOOLEAN]

B2N(b) == IF b THEN 1 ELSE 0

\* exchange faults in one leg / in one call
LegFaults(e) == B2N(~e.cancelOK) + B2N(e.run # CleanRun) + B2N(~e.refreshOK)

(***************************************************************************)
(* The order book as place_sl_tp_orders meets it.                          *)
(***************************************************************************)
CallSymbols == {SymShort, SymLong}

\* targets of the calls: (amount, sl_price, tp_price)
Targets == {[amount |-> 100, sl_price |-> 43000, tp_price |-> 49000]}

\* orders that reach the book from elsewhere (an earlier run, the operator)
ForeignOrders ==
    { [symbol |-> SymShort, type |-> "STOP_MARKET", price |-> 43020, stopPrice |-> 43020,
       amount |-> 101, reduceOnly |-> TRUE],
      [symbol |-> SymShort, type |-> "STOP_MARKET", price |-> 42000, stopPrice |-> 42000,
       amount |-> 100, reduceOnly |-> TRUE],
      [symbol |-> SymShort, type |-> "TAKE_PROFIT_MARKET", price |-> 49000,
       stopPrice |-> 49000, amount |-> 100, reduceOnly |-> TRUE],
      [symbol |-> SymShort, type |-> "limit", price |-> 45000, stopPrice |-> 0,
       amount |-> 100, reduceOnly |-> FALSE],
      [symbol |-> SymOther, type |-> "STOP_MARKET", price |-> 43000, stopPrice |-> 43000,
       amount |-> 100, reduceOnly |-> TRUE] }

LastIdle ==
    [phase |-> "idle", n |-> 0, symbol |-> <<>>, amount |-> 0, sl_price |-> 0, tp_price |-> 0,
     live |-> FALSE, events |-> <<>>, result |-> [sl_order |-> NoOrder, tp_order |-> NoOrder]]

BookInit == book = <<>> /\ cached = <<>> /\ last = LastIdle /\ exFaults = 0
BookParked == BookInit

\* An order placed from outside the call appears on the exchange.
ExchangeOrderAppears ==
    /\ last.phase = "idle"
    /\ last.n = 0
    /\ Len(book) < MaxBook
    /\ \E f \in ForeignOrders :
         book' = Append(book, [id |-> FreshId(book, cached), symbol |-> f.symbol,
                               type |-> f.type, price |-> f.price,
                               stopPrice |-> f.stopPrice, amount |-> f.amount,
                               reduceOnly |-> f.reduceOnly])
    /\ UNCHANGED <<cached, last, exFaults, storeVars, notBook>>

\* An open order leaves the exchange (triggered, filled, cancelled by hand).
ExchangeOrderGone ==
    /\ last.phase = "idle"
    /\ exFaults < MaxFaults
    /\ exFaults' = exFaults + 1
    /\ \E i \in 1..Len(book) :
         book' = [k \in 1..(Len(book) - 1) |-> IF k < i THEN book[k] ELSE book[k + 1]]
    /\ UNCHANGED <<cached, last, storeVars, notBook>>

\* The worker refreshes the cache from the exchange (main.py 931-932).
RefreshOpenOrders ==
    /\ last.phase = "idle"
    /\ cached' = update_exchange_open_orders(book)
    /\ cached' # cached
    /\ UNCHANGED <<book, last, exFaults, storeVars, notBook>>

\* One call of place_sl_tp_orders, to its return.
PlaceSlTp ==
    /\ last.phase = "idle"
    /\ last.n < MaxCalls
    /\ \E symbol \in CallSymbols, t \in Targets, live \in BOOLEAN :
         LET ex == existing_legs(book, cached, symbol, t.amount, t.sl_price,
                                 t.tp_price, live)
         IN  \E es \in LegEnvs(ex.sl, t.sl_price, t.amount),
                et \in LegEnvs(ex.tp, t.tp_price, t.amount) :
               LET faults == B2N(~live) + LegFaults(es) + LegFaults(et)
                   r == place_sl_tp_orders(book, cached, metrics, symbol, t.amount,
                                           t.sl_price, t.tp_price,
                                           [live |-> live, sl |-> es, tp |-> et])
               IN  /\ exFaults + faults <= MaxFaults
                   /\ exFaults' = exFaults + faults
                   /\ book' = r.book
                   /\ cached' = r.cached
                   /\ metrics' = r.metrics
                   /\ last' = [phase |-> "returned", n |-> last.n + 1, symbol |-> symbol,
                               amount |-> t.amount, sl_price |-> t.sl_price,
                               tp_price |-> t.tp_price, live |-> live,
                               events |-> r.events, result |-> r.result]
    /\ UNCHANGED <<logLen, notBook>>

\* The caller has taken the result of the call.
PlaceReturned ==
    /\ last.phase = "returned"
    /\ last' = [LastIdle EXCEPT !.n = last.n]
    /\ UNCHANGED <<book, cached, exFaults, storeVars, notBook>>

BookNext ==
    \/ ExchangeOrderAppears
    \/ ExchangeOrderGone
    \/ RefreshOpenOrders
    \/ PlaceSlTp
    \/ PlaceReturned

(***************************************************************************)
(* Stale pending orders (state.py 342-366, 405-435; main.py 736-797).      *)
(*                                                                         *)
(* A timestamp field holds the ISO string of a time (in seconds), nothing  *)
(* (absent), or a string fromisoformat rejects.                            *)
(***************************************************************************)
PendingSymbols == {SymShort, SymOther}

\* datetime.isoformat() of time t / an absent field / an unreadable string
IsoTime(t) == [iso |-> "time", t |-> t]
NoTime == [iso |-> "none", t |-> 0]
BadTime == [iso |-> "invalid", t |-> 0]

TickSeconds == PENDING_ORDER_STALE_SECONDS \div 2

\* what risk_manager.calculate_trade_params hands to the worker for an entry
EntryParams ==
    [side |-> "buy", quantity |-> 100, entry_price |-> 45000, stop_loss |-> 43000,
     take_profit |-> 49000]

\* state.add_pending_order(symbol, order_id, params)
add_pending_order(p, symbol, order_id, params, t) ==
    [s \in DOMAIN p \cup {symbol} |->
        IF s = symbol THEN [order_id |-> order_id, params |-> params,
                            timestamp |-> IsoTime(t), created_at |-> IsoTime(t),
                            exchange_orders |-> [sl |-> 0, tp |-> 0],
                            last_tp_sl_placement |-> NoTime]
        ELSE p[s]]

\* the backfill of load_pending_orders_on_startup / get_pending_order for one
\* record: exchange_orders and last_tp_sl_placement, nothing else
Backfill(rec) ==
    LET r1 == IF "exchange_orders" \in DOMAIN rec THEN rec
              ELSE ("exchange_orders" :> [sl |-> 0, tp |-> 0]) @@ rec
    IN  IF "last_tp_sl_placement" \in DOMAIN r1 THEN r1
        ELSE ("last_tp_sl_placement" :> NoTime) @@ r1

\* state.load_pending_orders_on_startup() on the parsed file
load_pending_orders_on_startup(loaded) == [s \in DOMAIN loaded |-> Backfill(loaded[s])]

\* records of pending_orders.json as an earlier version wrote them: no
\* created_at (or one that does not parse), no exchange_orders
OldRecords(id, t) ==
    [order_id : {id}, params : {EntryParams}, timestamp : {IsoTime(t), BadTime, NoTime},
     created_at : {NoTime, BadTime}]

\* state.remove_pending_order(symbol)
remove_pending_order(p, symbol) == [s \in DOMAIN p \ {symbol} |-> p[s]]

\* `pending.get('created_at') or pending.get('timestamp')`
CreatedAtStr(rec) == IF rec.created_at # NoTime THEN rec.created_at ELSE rec.timestamp

\* one pass of the loop of get_stale_pending_orders: a record with no or an
\* unreadable timestamp is skipped
IsStale(rec, t, threshold) ==
    LET created_at_str == CreatedAtStr(rec) IN
    IF created_at_str = NoTime THEN FALSE
    ELSE IF created_at_str.iso # "time" THEN FALSE
    ELSE (t - created_at_str.t) > threshold

\* state.get_stale_pending_orders(threshold): the stale symbols
get_stale_pending_orders(p, t, threshold) ==
    {s \in DOMAIN p : IsStale(p[s], t, threshold)}

CancelOutcomes == {"true", "false", "raise"}

\* the counters after one stale order (main.py 760-766)
StaleCounted(m, outcome) ==
    IF outcome = "true"
    THEN [m EXCEPT !.pending_order_stale_count = @ + 1,
                   !.cancelled_orders_count = @ + 1]
    ELSE m

\* the body of the for loop for one stale order: cancel, count, log, remove
\* (try branch), or remove and log (except branch)
HandleOneStale(st, symbol, outcome) ==
    [pending |-> remove_pending_order(st.pending, symbol),
     metrics |-> StaleCounted(st.metrics, outcome),
     logLen |-> add_reconciliation_log(st.logLen),
     cancels |-> Append(st.cancels, [symbol |-> symbol,
                                     order_id |-> st.pending[symbol].order_id])]

RECURSIVE HandleStaleLoop(_, _, _)
HandleStaleLoop(st, todo, outcomes) ==
    IF todo = {} THEN st
    ELSE LET s == CHOOSE x \in todo : TRUE
         IN  HandleStaleLoop(HandleOneStale(st, s, outcomes[s]), todo \ {s}, outcomes)

\* handle_stale_pending_orders(client); outcomes[s] is what cancel_order
\* does for the stale order of s
handle_stale_pending_orders(p, m, n, t, outcomes) ==
    HandleStaleLoop([pending |-> p, metrics |-> m, logLen |-> n, cancels |-> <<>>],
                    get_stale_pending_orders(p, t, PENDING_ORDER_STALE_SECONDS),
                    outcomes)

StaleRunIdle == [n |-> 0, placed |-> 0, cancels |-> <<>>, outcomes |-> <<>>]

StaleInit == pending = <<>> /\ now = 0 /\ staleRun = StaleRunIdle
StaleParked == StaleInit

\* The worker places an entry order and tracks it.
TrackEntry ==
    /\ staleRun.placed < MaxEntries
    /\ \E s \in PendingSymbols \ DOMAIN pending :
         pending' = add_pending_order(pending, s, staleRun.placed + 1, EntryParams, now)
    /\ staleRun' = [staleRun EXCEPT !.placed = @ + 1]
    /\ UNCHANGED <<now, storeVars, notStale>>

\* A record written by an earlier version is loaded: no created_at, or
\* timestamps that do not parse.
LoadOldEntry ==
    /\ staleRun.placed < MaxEntries
    /\ \E s \in PendingSymbols \ DOMAIN pending :
         \E rec \in OldRecords(staleRun.placed + 1, now) :
            pending' = pending @@ load_pending_orders_on_startup(s :> rec)
    /\ staleRun' = [staleRun EXCEPT !.placed = @ + 1]
    /\ UNCHANGED <<now, storeVars, notStale>>

\* Time passes.
Tick ==
    /\ now < MaxTicks * TickSeconds
    /\ now' = now + TickSeconds
    /\ UNCHANGED <<pending, staleRun, storeVars, notStale>>

\* One call of handle_stale_pending_orders, to its return.
HandleStale ==
    /\ DOMAIN pending # {}
    /\ LET stale == get_stale_pending_orders(pending, now, PENDING_ORDER_STALE_SECONDS)
       IN  \E outcomes \in [stale -> CancelOutcomes] :
             LET r == handle_stale_pending_orders(pending, metrics, logLen, now, outcomes)
             IN  /\ pending' = r.pending
                 /\ metrics' = r.metrics
                 /\ logLen' = r.logLen
                 /\ staleRun' = [staleRun EXCEPT !.n = 1 - @, !.cancels = r.cancels,
                                                 !.outcomes = outcomes]
    /\ UNCHANGED <<now, notStale>>

StaleNext ==
    \/ TrackEntry
    \/ LoadOldEntry
    \/ Tick
    \/ HandleStale

(***************************************************************************)
(* The position mirror (state.py 128-206, 229-279).                        *)
(*                                                                         *)
(* A price or size of 0 stands for a missing value (None); the code reads  *)
(* both through truthiness or `or 0`.                                      *)
(***************************************************************************)
MonSymbols == {SymShort, SymLong}

\* positions as fetch_positions reports them: ccxt gives contracts and a
\* side, the raw format a signed amount and no side
ExchangePositions ==
    [contracts : {10}, side : {"long", "short", "none"}, entryPrice : {45000},
     markPrice : {0, 43000, 46000, 49000}]
    \cup [contracts : {-10}, side : {"none"}, entryPrice : {45000},
          markPrice : {0, 43000, 46000, 49000}]
    \cup [contracts : {0}, side : {"none"}, entryPrice : {0}, markPrice : {0}]

\* position['side'].upper()
UpperSide(x) ==
    CASE x = "long" -> "LONG"
      [] x = "short" -> "SHORT"
      [] x = "buy" -> "BUY"
      [] x = "sell" -> "SELL"
      [] OTHER -> x

\* lines 150-158: the side of the mirrored position
PositionSide(pos) ==
    IF pos.side # "none"
    THEN IF UpperSide(pos.side) \in {"LONG", "BUY"} THEN "LONG"
         ELSE IF UpperSide(pos.side) \in {"SHORT", "SELL"} THEN "SHORT"
         ELSE IF pos.contracts > 0 THEN "LONG" ELSE "SHORT"
    ELSE IF pos.contracts > 0 THEN "LONG" ELSE "SHORT"

\* state.update_position(symbol, position) on the mirror
update_position(ps, symbol, pos) ==
    IF pos.contracts # 0
    THEN [s \in DOMAIN ps \cup {symbol} |->
            IF s = symbol
            THEN [symbol |-> symbol, side |-> PositionSide(pos),
                  size |-> Abs(pos.contracts), entry_price |-> pos.entryPrice,
                  mark_price |-> pos.markPrice, take_profit |-> 0, stop_loss |-> 0]
            ELSE ps[s]]
    ELSE [s \in DOMAIN ps \ {symbol} |-> ps[s]]

\* state.add_trade(trade): the row goes to the front of the history
add_trade(th, trade) == <<trade>> \o th

\* the rows of trade_history that are OPEN for the symbol, by index
OpenRows(th, symbol) ==
    {i \in 1..Len(th) : th[i].symbol = symbol /\ th[i].status = "OPEN"}

\* the smallest index of a non-empty set of indices
FirstOf(S) == CHOOSE i \in S : \A j \in S : i <= j

\* state._close_trade_in_history(symbol, old_position): the first OPEN row of
\* the symbol is closed at the mirror's mark price, or at its entry price when
\* the mark price is 0
close_trade_in_history(th, symbol, old_position) ==
    IF OpenRows(th, symbol) = {} THEN th
    ELSE LET i == FirstOf(OpenRows(th, symbol))
             exit_price == IF old_position.mark_price = 0
                           THEN old_position.entry_price
                           ELSE old_position.mark_price
         IN  [th EXCEPT ![i].exit_price = exit_price, ![i].status = "CLOSED"]

\* what update_position does to trade_history: lines 197-206 close the trade
\* when the mirror holds the symbol and the new position is None or has no
\* contracts
update_position_history(th, ps, symbol, pos) ==
    IF pos.contracts = 0 /\ symbol \in DOMAIN ps
    THEN close_trade_in_history(th, symbol, ps[symbol])
    ELSE th

RECURSIVE ComputeTpSlLoop(_, _, _, _)
ComputeTpSlLoop(symbol, orders, i, acc) ==
    IF i > Len(orders) THEN acc
    ELSE LET o == orders[i]
             order_type == Upper(o.type)
             hit == /\ o.symbol = symbol
                    /\ (o.reduce_only \/ order_type \in {"STOP_MARKET", "TAKE_PROFIT_MARKET"})
                    /\ o.stop_price # 0
             acc2 == IF hit /\ order_type = "STOP_MARKET"
                     THEN [acc EXCEPT !.stop_loss = o.stop_price]
                     ELSE IF hit /\ order_type = "TAKE_PROFIT_MARKET"
                     THEN [acc EXCEPT !.take_profit = o.stop_price]
                     ELSE acc
         IN  ComputeTpSlLoop(symbol, orders, i + 1, acc2)

\* state.compute_position_tp_sl(symbol, exchange_open_orders)
compute_position_tp_sl(symbol, orders) ==
    ComputeTpSlLoop(symbol, orders, 1, [take_profit |-> 0, stop_loss |-> 0])

\* state.enrich_positions_with_tp_sl()
enrich_positions_with_tp_sl(ps, cache) ==
    [s \in DOMAIN ps |->
        LET tp_sl == compute_position_tp_sl(s, cache) IN
        [ps[s] EXCEPT !.take_profit = IF tp_sl.take_profit # 0 THEN tp_sl.take_profit ELSE @,
                      !.stop_loss = IF tp_sl.stop_loss # 0 THEN tp_sl.stop_loss ELSE @]]

(***************************************************************************)
(* monitor_and_close_positions (main.py 590-734).                          *)
(***************************************************************************)
AmountStep == 10

\* client.exchange.amount_to_precision(symbol, size): cut to the amount step
amount_to_precision(size) == (size \div AmountStep) * AmountStep

\* dict.get(key) on the result of get_tp_sl_orders_for_position
DictGet(d, key) == IF key \in DOMAIN d THEN d[key] ELSE NoOrder

close_reason_tp_only(side, mark_price, take_profit, stop_loss) ==
    IF side = "LONG" /\ take_profit # 0 /\ mark_price >= take_profit THEN "tp_breach"
    ELSE IF side = "SHORT" /\ take_profit # 0 /\ mark_price <= take_profit THEN "tp_breach"
    ELSE "none"

\* lines 633-656: should_close / close_reason
close_reason(side, mark_price, take_profit, stop_loss) ==
    IF side = "LONG"
    THEN IF take_profit # 0 /\ mark_price >= take_profit THEN "tp_breach"
         ELSE IF stop_loss # 0 /\ mark_price <= stop_loss THEN "sl_breach"
         ELSE "none"
    ELSE IF side = "SHORT"
    THEN IF take_profit # 0 /\ mark_price <= take_profit THEN "tp_breach"
         ELSE IF stop_loss # 0 /\ mark_price >= stop_loss THEN "sl_breach"
         ELSE "none"
    ELSE "none"

\* the legs get_tp_sl_orders_for_position reports for the symbol
ReportedLegs(bk, symbol) ==
    LET r == get_tp_sl_orders_for_position(get_open_orders(bk, symbol, TRUE), symbol)
    IN  {r.sl_orders[i].id : i \in 1..Len(r.sl_orders)}
        \cup {r.tp_orders[i].id : i \in 1..Len(r.tp_orders)}

\* lines 658-717: a breach was detected for the position
ForceClose(st, position, reason, e) ==
    LET symbol == position.symbol
        close_side == IF position.side = "LONG" THEN "sell" ELSE "buy"
        formatted_size == amount_to_precision(position.size)
        tp_sl_orders ==
            get_tp_sl_orders_for_position(get_open_orders(st.book, symbol, e.live), symbol)
        sl_order == DictGet(tp_sl_orders, "sl_order")
        c1 == IF sl_order # NoOrder
              THEN CancelOnExchange(st.book, sl_order.id, e.cancelOK)
              ELSE [ok |-> FALSE, book |-> st.book]
        ev1 == IF sl_order # NoOrder
               THEN Append(st.events, [op |-> "cancel", symbol |-> symbol,
                                       id |-> sl_order.id, ok |-> c1.ok])
               ELSE st.events
        tp_order == DictGet(tp_sl_orders, "tp_order")
        c2 == IF tp_order # NoOrder
              THEN CancelOnExchange(c1.book, tp_order.id, e.cancelOK)
              ELSE [ok |-> FALSE, book |-> c1.book]
        ev2 == IF tp_order # NoOrder
               THEN Append(ev1, [op |-> "cancel", symbol |-> symbol,
                                 id |-> tp_order.id, ok |-> c2.ok])
               ELSE ev1
        market_order == e.run.result
    IN  [book |-> c2.book,
         logLen |-> add_reconciliation_log(st.logLen),
         events |-> Append(ev2, [op |-> "close", symbol |-> symbol, side |-> close_side,
                                 amount |-> formatted_size, reason |-> reason,
                                 legs |-> ReportedLegs(c2.book, symbol),
                                 ok |-> market_order # NoneResult])]

\* lines 611-717: the body of the loop for one position
MonitorOne(st, position, e) ==
    IF position.size <= 0 \/ position.mark_price <= 0 THEN st
    ELSE IF position.take_profit = 0 /\ position.stop_loss = 0 THEN st
    ELSE LET reason == close_reason(position.side, position.mark_price,
                                    position.take_profit, position.stop_loss)
         IN  IF reason = "none" THEN st ELSE ForceClose(st, position, reason, e)

RECURSIVE MonitorLoop(_, _, _, _)
MonitorLoop(st, ps, todo, env) ==
    IF todo = {} THEN st
    ELSE LET s == CHOOSE x \in todo : TRUE
         IN  MonitorLoop(MonitorOne(st, ps[s], env[s]), ps, todo \ {s}, env)

\* monitor_and_close_positions(client)
monitor_and_close_positions(enabled, ps, bk, n, env) ==
    IF ~enabled THEN [book |-> bk, logLen |-> n, events |-> <<>>]
    ELSE MonitorLoop([book |-> bk, logLen |-> n, events |-> <<>>], ps, DOMAIN ps, env)

\* reduce-only legs that reach the book for the monitored market
MonitorLegs ==
    [symbol : {SymShort}, type : {"STOP_MARKET", "TAKE_PROFIT_MARKET"},
     stopPrice : {43000, 49000}, amount : {10}]

MonIdle == [n |-> 0, events |-> <<>>]

MonInit == positions = <<>> /\ trades = <<>> /\ monitoring \in BOOLEAN /\ mon = MonIdle
MonParked == positions = <<>> /\ trades = <<>> /\ monitoring = TRUE /\ mon = MonIdle

\* A TP or SL leg of the monitored market is open on the exchange.
LegAppears ==
    /\ Len(book) < MaxBook
    /\ \E f \in MonitorLegs :
         book' = Append(book, NewOrder(FreshId(book, cached), f.symbol, f.type,
                                       f.stopPrice, f.amount, TRUE))
    /\ UNCHANGED <<cached, last, exFaults, storeVars, monVars, notMon>>

\* The worker refreshes the cache and derives TP/SL (main.py 930-935).
RefreshAndEnrich ==
    /\ cached' = update_exchange_open_orders(book)
    /\ positions' = enrich_positions_with_tp_sl(positions, cached')
    /\ <<cached', positions'>> # <<cached, positions>>
    /\ UNCHANGED <<book, last, exFaults, trades, monitoring, mon, storeVars, notMon>>

\* The mirror takes what the exchange reports for a symbol (main.py 562, 945).
MirrorPosition ==
    /\ \E s \in MonSymbols, pos \in ExchangePositions :
         /\ positions' = update_position(positions, s, pos)
         /\ trades' = update_position_history(trades, positions, s, pos)
         /\ positions' # positions
         /\ Cardinality(DOMAIN positions') <= MaxMirrored
    /\ UNCHANGED <<bookVars, monitoring, mon, storeVars, notMon>>

\* One call of monitor_and_close_positions, to its return.
MonitorPass ==
    /\ mon.n < MaxPasses
    /\ DOMAIN positions # {}
    /\ \E env \in [DOMAIN positions ->
                     [live : BOOLEAN, cancelOK : BOOLEAN, run : {CleanRun, CHOOSE r \in PlaceRuns : r.result = NoneResult}]] :
         LET r == monitor_and_close_positions(monitoring, positions, book, logLen, env)
         IN  /\ book' = r.book
             /\ logLen' = r.logLen
             /\ mon' = [n |-> mon.n + 1, events |-> r.events]
    /\ UNCHANGED <<cached, last, exFaults, metrics, positions, trades, monitoring, notMon>>

MonitorNext ==
    \/ LegAppears
    \/ RefreshAndEnrich
    \/ MirrorPosition
    \/ MonitorPass

(***************************************************************************)
(* The market of the traded symbol, as the worker's client calls see it.   *)
(* mkt.entry is the exchange's record of the latest entry order, mkt.size *)
(* the size of the position its fills have built, mkt.closes the number of *)
(* times the position was closed.                                          *)
(***************************************************************************)
WorkSymbol == SymShort
WorkerThread == 1
FillLevels == {40, 70, 100}
NoEntry == [id |-> 0, amount |-> 0, filled |-> 0, status |-> "none"]
NoPending == [order_id |-> 0]
NoStatus == [status |-> "none"]
NoPosition ==
    [symbol |-> WorkSymbol, contracts |-> 0, side |-> "none", entryPrice |-> 0,
     markPrice |-> 0]

PriceTick == 10

\* client.exchange.price_to_precision(symbol, price): round to the price tick
price_to_precision(p) == ((p + PriceTick \div 2) \div PriceTick) * PriceTick

\* format_order_params(client, symbol, params)
format_order_params(params) ==
    [quantity |-> amount_to_precision(params.quantity),
     entry_price |-> price_to_precision(params.entry_price),
     stop_loss |-> price_to_precision(params.stop_loss),
     take_profit |-> price_to_precision(params.take_profit)]

\* what exchange.fetch_positions reports for the symbol
fetch_position(x) ==
    IF x.size > 0
    THEN [symbol |-> WorkSymbol, contracts |-> x.size, side |-> "long",
          entryPrice |-> EntryParams.entry_price, markPrice |-> EntryParams.entry_price]
    ELSE NoPosition

\* client.get_position(symbol): None when the fetch fails
get_position(x, answered) == IF answered THEN fetch_position(x) ELSE NoPosition

\* client.get_all_positions(): the nonzero positions, [] when the fetch fails
get_all_positions(x, answered) ==
    IF answered /\ x.size # 0 THEN <<fetch_position(x)>> ELSE <<>>

\* client.get_order_status(symbol, order_id): None when fetch_order fails
get_order_status(x, order_id, answered) ==
    IF answered /\ order_id # 0 /\ x.entry.id = order_id
    THEN [amount |-> x.entry.amount, filled |-> x.entry.filled, status |-> x.entry.status]
    ELSE NoStatus

\* client.cancel_all_orders(symbol): every open order of the symbol
cancel_all_orders(bk, x, symbol, accepted) ==
    LET Other(o) == normalize_symbol(o.symbol) # normalize_symbol(symbol)
    IN  IF accepted
        THEN [book |-> SelectSeq(bk, Other),
              mkt |-> IF x.entry.status = "open"
                     THEN [x EXCEPT !.entry.status = "canceled"] ELSE x]
        ELSE [book |-> bk, mkt |-> x]

\* state.get_pending_order(symbol)
get_pending_order(p, symbol) == IF symbol \in DOMAIN p THEN p[symbol] ELSE NoPending

\* state.update_pending_order_exchange_orders(symbol, sl_order, tp_order)
update_pending_order_exchange_orders(p, symbol, sl_order, tp_order, t) ==
    IF symbol \notin DOMAIN p THEN p
    ELSE LET rec == p[symbol]
             old == IF "exchange_orders" \in DOMAIN rec THEN rec.exchange_orders
                    ELSE [sl |-> 0, tp |-> 0]
             new == [sl |-> IF sl_order # NoOrder THEN sl_order.id ELSE old.sl,
                     tp |-> IF tp_order # NoOrder THEN tp_order.id ELSE old.tp]
         IN  [p EXCEPT ![symbol] = ("exchange_orders" :> new
                                    @@ "last_tp_sl_placement" :> IsoTime(t)) @@ rec]

\* the exchange's answers to one leg (at most one fault in a leg) and to one
\* place_sl_tp_orders call
CleanLeg == [cancelOK |-> TRUE, run |-> CleanRun, refreshOK |-> TRUE]
LegEnvAll ==
    {CleanLeg, [CleanLeg EXCEPT !.cancelOK = FALSE], [CleanLeg EXCEPT !.refreshOK = FALSE]}
    \cup {[CleanLeg EXCEPT !.run = r] : r \in PlaceRuns}
PlaceFaults(e) == B2N(~e.live) + LegFaults(e.sl) + LegFaults(e.tp)
PlaceEnvs(budget) ==
    {e \in [live : BOOLEAN, sl : LegEnvAll, tp : LegEnvAll] : PlaceFaults(e) <= budget}

(***************************************************************************)
(* reconcile_position_tp_sl and reconcile_all_positions_tp_sl              *)
(* (main.py 240-448, 522-588), as the worker calls them.                   *)
(* st carries book, cached, metrics, logLen, pending, positions and, at     *)
(* startup, trades and mkt.                                                *)
(***************************************************************************)
LogIf(n, b) == IF b THEN add_reconciliation_log(n) ELSE n

\* place_stop_loss / place_take_profit called on their own
place_one(st, symbol, type, price, amount, run) ==
    IF run.result # NoneResult
    THEN [st EXCEPT !.book = Append(@, NewOrder(FreshId(st.book, st.cached), symbol,
                                                 type, price, amount, TRUE)),
                    !.logLen = add_reconciliation_log(@)]
    ELSE st

\* lines 392-406: both legs were needed and place_sl_tp_orders returned r
ReconcilePlaced(st, symbol, r, t) ==
    LET s2 == [st EXCEPT !.book = r.book, !.cached = r.cached, !.metrics = r.metrics]
    IN  IF r.result.sl_order # NoOrder /\ r.result.tp_order # NoOrder
        THEN [st |-> [s2 EXCEPT
                        !.pending = update_pending_order_exchange_orders(
                                        @, symbol, r.result.sl_order,
                                        r.result.tp_order, t),
                        !.logLen = add_reconciliation_log(@)],
              ok |-> TRUE]
        ELSE [st |-> s2, ok |-> FALSE]

\* lines 276-439: what follows the lookup of the existing legs
ReconcileLegs(st, symbol, position, pending_order, sl_order, tp_order, t, e) ==
    LET position_size == Abs(position.contracts)
        is_long == position.contracts > 0
        entry_price == position.entryPrice
        fromPending == /\ pending_order # NoPending
                       /\ pending_order.params.stop_loss # 0
                       /\ pending_order.params.take_profit # 0
        sl_price == IF fromPending THEN price_to_precision(pending_order.params.stop_loss)
                    ELSE IF is_long THEN price_to_precision((entry_price * 99) \div 100)
                    ELSE price_to_precision((entry_price * 101) \div 100)
        tp_price == IF fromPending THEN price_to_precision(pending_order.params.take_profit)
                    ELSE IF is_long
                    THEN price_to_precision((entry_price * (100 + RR_RATIO)) \div 100)
                    ELSE price_to_precision((entry_price * (100 - RR_RATIO)) \div 100)
        formatted_size == amount_to_precision(position_size)
        Mismatch(o) ==
            Abs(o.amount - formatted_size) * TP_SL_QUANTITY_TOLERANCE_DEN > formatted_size
        needs_sl == sl_order = NoOrder \/ Mismatch(sl_order)
        needs_tp == tp_order = NoOrder \/ Mismatch(tp_order)
        c1 == IF sl_order # NoOrder /\ needs_sl
              THEN CancelOnExchange(st.book, sl_order.id, e.cancelOK).book ELSE st.book
        c2 == IF tp_order # NoOrder /\ needs_tp
              THEN CancelOnExchange(c1, tp_order.id, e.cancelOK).book ELSE c1
        s1 == [st EXCEPT !.book = c2,
                         !.logLen = LogIf(LogIf(@, needs_sl), needs_tp)]
        deferred == /\ pending_order # NoPending
                    /\ "last_tp_sl_placement" \in DOMAIN pending_order
                    /\ pending_order.last_tp_sl_placement.iso = "time"
                    /\ t - pending_order.last_tp_sl_placement.t < 30
    IN  IF ~(needs_sl \/ needs_tp) THEN [st |-> s1, ok |-> TRUE]
        ELSE IF deferred
        THEN [st |-> [s1 EXCEPT !.logLen = add_reconciliation_log(@)], ok |-> TRUE]
        ELSE IF needs_sl /\ needs_tp
        THEN ReconcilePlaced(s1, symbol,
                             place_sl_tp_orders(s1.book, s1.cached, s1.metrics, symbol,
                                                formatted_size, sl_price, tp_price,
                                                e.place),
                             t)
        ELSE IF needs_sl
        THEN [st |-> place_one(s1, symbol, "STOP_MARKET", sl_price, formatted_size,
                               e.place.sl.run),
              ok |-> e.place.sl.run.result # NoneResult]
        ELSE [st |-> place_one(s1, symbol, "TAKE_PROFIT_MARKET", tp_price, formatted_size,
                               e.place.tp.run),
              ok |-> e.place.tp.run.result # NoneResult]

\* reconcile_position_tp_sl(client, symbol, position, pending_order)
reconcile_position_tp_sl(st, symbol, position, pending_order, t, e) ==
    IF position.contracts = 0 THEN [st |-> st, ok |-> TRUE]
    ELSE LET tp_sl_orders ==
                 get_tp_sl_orders_for_position(get_open_orders(st.book, symbol, e.live),
                                               symbol)
         IN  IF {"sl_order", "tp_order"} \subseteq DOMAIN tp_sl_orders
             THEN ReconcileLegs(st, symbol, position, pending_order,
                                tp_sl_orders["sl_order"], tp_sl_orders["tp_order"], t, e)
             \* lines 273-274 raise KeyError; lines 441-448 log it and return False
             ELSE [st |-> [st EXCEPT !.logLen = add_reconciliation_log(@)], ok |-> FALSE]

RECURSIVE ReconcileLoop(_, _, _, _, _)
ReconcileLoop(st, list, i, t, e) ==
    IF i > Len(list) THEN st
    ELSE LET position == list[i]
             symbol == position.symbol
             s1 == [st EXCEPT !.positions = update_position(@, symbol, position)]
             pend == get_pending_order(s1.pending, symbol)
         IN  ReconcileLoop(reconcile_position_tp_sl(s1, symbol, position, pend, t, e).st,
                           list, i + 1, t, e)

\* reconcile_all_positions_tp_sl(client), from the acquire to the release
reconcile_all_positions_tp_sl(st, lock, x, t, e) ==
    IF ~LockAcquire(lock, WorkerThread).ok
    THEN [st EXCEPT !.metrics = SkippedPathMetrics(@),
                    !.logLen = add_reconciliation_log(@)]
    ELSE LET s0 == [st EXCEPT !.metrics = RunPathMetrics(@),
                              !.logLen = add_reconciliation_log(@)]
             s1 == ReconcileLoop(s0, get_all_positions(x, e.positionsOK), 1, t, e)
         IN  [s1 EXCEPT !.logLen = add_reconciliation_log(@)]

(***************************************************************************)
(* One iteration of the worker loop (main.py 820-1082), in its steps.      *)
(***************************************************************************)
\* lines 857-884: the entry order is filled and place_sl_tp_orders returned r
PendingFilled(st, symbol, params, formatted, r) ==
    [st EXCEPT !.book = r.book, !.cached = r.cached,
               !.metrics = IF r.result.sl_order # NoOrder /\ r.result.tp_order # NoOrder
                           THEN [r.metrics EXCEPT !.filled_orders_count = @ + 1]
                           ELSE r.metrics,
               \* lines 867-880: the order status carries no average and no price
               !.trades = add_trade(@, [symbol |-> symbol, side |-> UpperSide(params.side),
                                        entry_price |-> params.entry_price,
                                        exit_price |-> 0, size |-> formatted.quantity,
                                        status |-> "OPEN",
                                        take_profit |-> formatted.take_profit,
                                        stop_loss |-> formatted.stop_loss]),
               !.pending = remove_pending_order(@, symbol)]

\* lines 902-911: a partial fill was seen and place_sl_tp_orders returned r
PendingPartial(st, symbol, r, filled_amount, remaining_amount, t) ==
    LET p1 == IF r.result.sl_order # NoOrder /\ r.result.tp_order # NoOrder
              THEN update_pending_order_exchange_orders(st.pending, symbol,
                                                        r.result.sl_order,
                                                        r.result.tp_order, t)
              ELSE st.pending
        rec == [p1[symbol] EXCEPT !.params.quantity = remaining_amount]
        rec2 == ("partial_fill" :> TRUE @@ "filled_amount" :> filled_amount) @@ rec
    IN  [st EXCEPT !.book = r.book, !.cached = r.cached, !.metrics = r.metrics,
                   !.pending = [p1 EXCEPT ![symbol] = rec2]]

\* lines 833-919: the body of the pending walk for one symbol
ProcessPending(st, symbol, x, t, e) ==
    LET pend == get_pending_order(st.pending, symbol)
        order_status == get_order_status(x, pend.order_id, e.statusOK)
    IN  IF pend = NoPending \/ order_status = NoStatus THEN st
        ELSE
        LET original_amount == order_status.amount
            filled_amount == order_status.filled
            remaining_amount == original_amount - filled_amount
            formatted == format_order_params(pend.params)
        IN  IF order_status.status = "filled"
            THEN PendingFilled(st, symbol, pend.params, formatted,
                               place_sl_tp_orders(st.book, st.cached, st.metrics, symbol,
                                                  formatted.quantity, formatted.stop_loss,
                                                  formatted.take_profit, e.place))
            ELSE IF filled_amount > 0 /\ remaining_amount > 0
            THEN PendingPartial(st, symbol,
                                place_sl_tp_orders(st.book, st.cached, st.metrics, symbol,
                                                   amount_to_precision(filled_amount),
                                                   formatted.stop_loss,
                                                   formatted.take_profit, e.place),
                                filled_amount, remaining_amount, t)
            ELSE IF order_status.status \in {"canceled", "expired", "rejected"}
            THEN [st EXCEPT !.metrics = IF order_status.status = "canceled"
                                        THEN [@ EXCEPT !.cancelled_orders_count = @ + 1]
                                        ELSE @,
                            !.pending = remove_pending_order(@, symbol)]
            ELSE st

RECURSIVE PendingLoop(_, _, _, _, _)
PendingLoop(st, todo, x, t, e) ==
    IF todo = {} THEN st
    ELSE LET s == CHOOSE y \in todo : TRUE
         IN  PendingLoop(ProcessPending(st, s, x, t, e), todo \ {s}, x, t, e)

\* state.clear_pending_order_log_tracking(symbol), called by
\* remove_pending_order: the logged order id of a removed pending order is
\* forgotten
LogTracking(logged, before, after) ==
    IF WorkSymbol \in DOMAIN before /\ WorkSymbol \notin DOMAIN after THEN 0 ELSE logged

WorkIdle ==
    [pc |-> "top", n |-> 0, placed |-> 0, start |-> 0, logged |-> 0, restarts |-> 0,
     loaded |-> TRUE]

WorkInit == mkt = [entry |-> NoEntry, size |-> 0, closes |-> 0] /\ wk = WorkIdle
WorkParked == WorkInit

\* the stale check that follows the periodic reconciliation (line 828)
StaleAfter(st, t) ==
    LET stale == get_stale_pending_orders(st.pending, t, PENDING_ORDER_STALE_SECONDS)
        h == handle_stale_pending_orders(st.pending, st.metrics, st.logLen, t,
                                         [s \in stale |-> "true"])
    IN  [st EXCEPT !.pending = h.pending, !.metrics = h.metrics, !.logLen = h.logLen]

\* lines 824-829: reconcile_all_positions_tp_sl, then handle_stale_pending_orders
PeriodicWork(st, lock, x, t, e) ==
    StaleAfter(reconcile_all_positions_tp_sl(st, lock, x, t, e), t)

(***************************************************************************)
(* Startup (main.py 76-238, 450-520, 795-812; state.py 671-679).           *)
(***************************************************************************)
OB_TOLERANCE_DEN == 200          \* tolerance = 0.005

\* what lux_algo.detect_order_blocks may hand to reconcile_live_orders
OrderBlocks ==
    {[type |-> "bullish", ob_top |-> 45000, ob_bottom |-> 44000],
     [type |-> "bullish", ob_top |-> 46000, ob_bottom |-> 45000],
     [type |-> "bearish", ob_top |-> 46000, ob_bottom |-> 45000]}

\* order.get('side', '').lower(): the market of the model holds buy entries
OrderSide(o) == EntryParams.side

\* lines 129-142: the order's price is within 0.5% of a bullish block's top
\* (buy) or of a bearish block's bottom (sell)
MatchedOb(obs, order_price, order_side) ==
    \E i \in 1..Len(obs) :
        \/ /\ obs[i].type = "bullish" /\ order_side = "buy"
           /\ Abs(order_price - obs[i].ob_top) * OB_TOLERANCE_DEN < obs[i].ob_top
        \/ /\ obs[i].type = "bearish" /\ order_side = "sell"
           /\ Abs(order_price - obs[i].ob_bottom) * OB_TOLERANCE_DEN < obs[i].ob_bottom

\* lines 150-157: the parameters an adopted order is tracked with
AdoptedParams(o) ==
    [side |-> OrderSide(o), quantity |-> o.amount, entry_price |-> o.price,
     stop_loss |-> 0, take_profit |-> 0, reconciled |-> TRUE]

\* lines 101-192: one open exchange order; r carries the state and the
\* matched order ids
LiveOrder(r, o, t, e) ==
    LET st == r.st
        is_tp_sl == o.reduceOnly \/ o.type \in {"STOP_MARKET", "TAKE_PROFIT_MARKET"}
        pend == get_pending_order(st.pending, o.symbol)
        logged == [st EXCEPT !.logLen = add_reconciliation_log(@)]
    IN  IF pend # NoPending /\ pend.order_id = o.id
        THEN [st |-> logged, matched |-> r.matched \cup {o.id}]
        ELSE IF is_tp_sl
        THEN [st |-> logged, matched |-> r.matched \cup {o.id}]
        \* fetch_ohlcv raised or returned nothing: the order is left as it is
        ELSE IF e.ohlcv # "data" THEN r
        ELSE IF MatchedOb(e.obs, o.price, OrderSide(o))
        THEN [st |-> [logged EXCEPT
                        !.pending = add_pending_order(@, o.symbol, o.id,
                                                      AdoptedParams(o), t)],
              matched |-> r.matched \cup {o.id}]
        ELSE IF e.cancelOK
        THEN [st |-> [logged EXCEPT
                        !.book = CancelOnExchange(@, o.id, TRUE).book,
                        !.mkt = IF @.entry.id = o.id
                                THEN [@ EXCEPT !.entry.status = "canceled"] ELSE @,
                        !.metrics = [@ EXCEPT !.cancelled_orders_count = @ + 1]],
              matched |-> r.matched]
        ELSE r

RECURSIVE LiveOrdersLoop(_, _, _, _, _)
LiveOrdersLoop(r, orders, i, t, e) ==
    IF i > Len(orders) THEN r
    ELSE LiveOrdersLoop(LiveOrder(r, orders[i], t, e), orders, i + 1, t, e)

\* lines 194-227: is the tracked order given up?  get_order_status returns
\* None when the order is unknown and when the query fails
Orphaned(pend, matched, x, e) ==
    /\ pend.order_id \notin matched
    /\ LET order_status == get_order_status(x, pend.order_id, e.statusOK)
       IN  \/ order_status = NoStatus
           \/ order_status.status \in {"filled", "canceled", "expired", "rejected"}

OrphanedFilled(pend, matched, x, e) ==
    /\ Orphaned(pend, matched, x, e)
    /\ LET order_status == get_order_status(x, pend.order_id, e.statusOK)
       IN  order_status # NoStatus /\ order_status.status = "filled"

\* lines 194-238: the orphaned pending orders are removed, each with a log
\* entry, and the last log entry is written
RemoveOrphaned(st, orphaned_symbols, filled) ==
    [st EXCEPT !.pending = [s \in DOMAIN @ \ orphaned_symbols |-> @[s]],
               !.metrics = [@ EXCEPT !.filled_orders_count = @ + filled],
               !.logLen = Min(@ + Cardinality(orphaned_symbols) + 1,
                              MAX_RECONCILIATION_LOG_ENTRIES)]

OrphanedPass(r, e) ==
    RemoveOrphaned(r.st,
                   {s \in DOMAIN r.st.pending :
                      Orphaned(r.st.pending[s], r.matched, r.st.mkt, e)},
                   Cardinality({s \in DOMAIN r.st.pending :
                                  OrphanedFilled(r.st.pending[s], r.matched, r.st.mkt, e)}))

LiveOrdersPass(s0, t, e) ==
    LiveOrdersLoop([st |-> s0, matched |-> {}],
                   get_open_orders(s0.book, WorkSymbol, e.live), 1, t, e)

\* reconcile_live_orders(client), from its first log entry to its last
reconcile_live_orders(st, t, e) ==
    OrphanedPass(LiveOrdersPass([st EXCEPT !.logLen = add_reconciliation_log(@)], t, e), e)

\* reconcile_existing_positions_with_trades(client): an OPEN row for every
\* exchange position whose symbol has none; tp_sl_orders has neither a
\* 'tp_order' nor an 'sl_order' key, so the row's prices stay None
reconcile_existing_positions_with_trades(th, x, answered) ==
    LET ps == get_all_positions(x, answered)
    IN  IF ps = <<>> \/ OpenRows(th, ps[1].symbol) # {} THEN th
        ELSE add_trade(th, [symbol |-> ps[1].symbol,
                            side |-> IF ps[1].contracts > 0 THEN "LONG" ELSE "SHORT",
                            entry_price |-> ps[1].entryPrice, exit_price |-> 0,
                            size |-> Abs(ps[1].contracts), status |-> "OPEN",
                            take_profit |-> 0, stop_loss |-> 0])

\* state.init(): the pending orders, the metrics and the trade history come
\* back from disk; the mirror, the order cache and the reconciliation log
\* start empty.  A pending_orders.json that is missing or does not parse
\* gives no pending orders (state.py 526-533).
StateInit(st, fileOK) ==
    [st EXCEPT !.pending = IF fileOK THEN load_pending_orders_on_startup(@) ELSE <<>>,
               !.positions = <<>>, !.cached = <<>>, !.logLen = 0]

\* the reduce-only TP/SL orders the exchange holds for the symbol, by index
PlacedLegs(bk, symbol) ==
    {i \in 1..Len(bk) : /\ normalize_symbol(bk[i].symbol) = normalize_symbol(symbol)
                        /\ bk[i].reduceOnly
                        /\ Upper(bk[i].type) \in TP_SL_ORDER_TYPES}

\* The exchange fills more of the open entry order.
EntryFills ==
    /\ mkt.entry.status = "open"
    /\ \E l \in FillLevels :
         /\ l > mkt.entry.filled
         /\ l <= mkt.entry.amount
         /\ mkt' = [mkt EXCEPT !.entry = [@ EXCEPT !.filled = l,
                                                   !.status = IF l = mkt.entry.amount
                                                              THEN "filled" ELSE "open"],
                               !.size = @ + (l - mkt.entry.filled)]
         /\ book' = IF l = mkt.entry.amount
                    THEN SelectSeq(book, LAMBDA o : o.id # mkt.entry.id) ELSE book
    /\ UNCHANGED <<cached, exFaults, storeVars, pending, positions, trades, wk, notWork>>

\* The open entry order is cancelled on the exchange.
EntryCancelled ==
    /\ mkt.entry.status = "open"
    /\ mkt' = [mkt EXCEPT !.entry.status = "canceled"]
    /\ book' = SelectSeq(book, LAMBDA o : o.id # mkt.entry.id)
    /\ UNCHANGED <<cached, exFaults, storeVars, pending, positions, trades, wk, notWork>>

\* The position is closed on the exchange once its entry order is done: the
\* first of its reduce-only orders triggers and leaves the book, or it is
\* closed by other means when there is none.
PositionCloses ==
    /\ mkt.size > 0
    /\ mkt.entry.status # "open"
    /\ mkt.closes < MaxCloses
    /\ mkt' = [mkt EXCEPT !.size = 0, !.closes = @ + 1]
    /\ book' = IF PlacedLegs(book, WorkSymbol) = {} THEN book
               ELSE LET i == FirstOf(PlacedLegs(book, WorkSymbol))
                    IN  SelectSeq(book, LAMBDA o : o.id # book[i].id)
    /\ UNCHANGED <<cached, exFaults, storeVars, pending, positions, trades, wk, notWork>>

\* The process is stopped between two iterations and started again:
\* run_bot_logic from state.init() to the top of its loop (main.py 795-812).
Restart ==
    /\ wk.pc = "top"
    /\ wk.restarts < MaxRestarts
    /\ \E ohlcv \in {"raises", "empty", "data"}, ob \in OrderBlocks,
          cancelOK \in BOOLEAN, statusOK \in BOOLEAN, positionsOK \in BOOLEAN,
          tradesOK \in BOOLEAN, fileOK \in BOOLEAN,
          place \in {p \in PlaceEnvs(MaxFaults - exFaults) :
                       p.sl = CleanLeg /\ p.tp = CleanLeg} :
         LET e == [live |-> place.live, ohlcv |-> ohlcv, obs |-> <<ob>>,
                   cancelOK |-> cancelOK, statusOK |-> statusOK,
                   positionsOK |-> positionsOK, tradesOK |-> tradesOK, place |-> place]
             faults == PlaceFaults(place) + B2N(ohlcv = "raises") + B2N(~cancelOK)
                       + B2N(~statusOK) + B2N(~positionsOK) + B2N(~tradesOK)
                       + B2N(~fileOK)
             st == [book |-> book, cached |-> cached, metrics |-> metrics,
                    logLen |-> logLen, pending |-> pending, positions |-> positions,
                    trades |-> trades, mkt |-> mkt]
         IN  /\ exFaults + faults <= MaxFaults
             /\ exFaults' = exFaults + faults
             /\ \E s1 \in {reconcile_live_orders(StateInit(st, fileOK), now, e)} :
                \E r \in {reconcile_all_positions_tp_sl(s1, 0, s1.mkt, now, e)} :
                  /\ book' = r.book
                  /\ cached' = r.cached
                  /\ metrics' = r.metrics
                  /\ logLen' = r.logLen
                  /\ pending' = r.pending
                  /\ positions' = r.positions
                  /\ trades' = reconcile_existing_positions_with_trades(r.trades, r.mkt,
                                                                        tradesOK)
                  /\ mkt' = r.mkt
         \* the restarted worker has MaxAfterRestart iterations left
         /\ wk' = [wk EXCEPT !.pc = "top", !.start = 0, !.logged = 0,
                             !.restarts = @ + 1, !.loaded = fileOK,
                             !.n = Max(@, MaxIterations - MaxAfterRestart)]
    /\ UNCHANGED notWork

\* lines 822-829: the periodic reconciliation, when it is due
WorkerPeriodic ==
    /\ wk.pc = "top"
    /\ wk.n < MaxIterations
    /\ \E due \in BOOLEAN, positionsOK \in BOOLEAN, cancelOK \in BOOLEAN,
          place \in PlaceEnvs(MaxFaults - exFaults) :
         LET e == [positionsOK |-> positionsOK, live |-> place.live,
                   cancelOK |-> cancelOK, place |-> place]
             faults == IF due
                       THEN B2N(~positionsOK) + B2N(~cancelOK) + PlaceFaults(place)
                       ELSE 0
             st == [book |-> book, cached |-> cached, metrics |-> metrics,
                    logLen |-> logLen, pending |-> pending, positions |-> positions]
         IN  /\ ~due => (positionsOK /\ cancelOK /\ PlaceFaults(place) = 0)
             /\ exFaults + faults <= MaxFaults
             /\ exFaults' = exFaults + faults
             /\ \E r \in {IF due THEN PeriodicWork(st, reconLock, mkt, now, e) ELSE st} :
                  /\ book' = r.book
                  /\ cached' = r.cached
                  /\ positions' = r.positions
                  /\ pending' = r.pending
                  /\ metrics' = r.metrics
                  /\ logLen' = r.logLen
    /\ wk' = [wk EXCEPT !.pc = "pending", !.start = mkt.size,
                        !.logged = LogTracking(@, pending, pending')]
    /\ UNCHANGED <<mkt, trades, notWork>>

\* lines 831-919: the walk over the pending orders
WorkerPending ==
    /\ wk.pc = "pending"
    /\ \E statusOK \in BOOLEAN, place \in PlaceEnvs(MaxFaults - exFaults) :
         LET e == [statusOK |-> statusOK, place |-> place]
             faults == B2N(~statusOK) + PlaceFaults(place)
             st == [book |-> book, cached |-> cached, metrics |-> metrics,
                    pending |-> pending, trades |-> trades]
         IN  /\ exFaults + faults <= MaxFaults
             /\ exFaults' = exFaults + faults
             /\ \E r \in {PendingLoop(st, DOMAIN pending, mkt, now, e)} :
                  /\ book' = r.book
                  /\ cached' = r.cached
                  /\ metrics' = r.metrics
                  /\ pending' = r.pending
                  /\ trades' = r.trades
    /\ wk' = [wk EXCEPT !.pc = "refresh",
                        !.logged = LogTracking(@, pending, pending')]
    /\ UNCHANGED <<mkt, logLen, positions, notWork>>

\* lines 930-938: refresh the order cache, derive TP/SL, run the monitor
WorkerRefresh ==
    /\ wk.pc = "refresh"
    /\ LET cache == update_exchange_open_orders(book)
           ps == enrich_positions_with_tp_sl(positions, cache)
           r == monitor_and_close_positions(
                    monitoring, ps, book, logLen,
                    [s \in DOMAIN ps |-> [live |-> TRUE, cancelOK |-> TRUE,
                                          run |-> CleanRun]])
       IN  /\ cached' = cache
           /\ positions' = ps
           /\ book' = r.book
           /\ logLen' = r.logLen
    /\ wk' = [wk EXCEPT !.pc = "scan"]
    /\ UNCHANGED <<mkt, exFaults, metrics, pending, trades, notWork>>

\* lines 940-989: the symbol's position is fetched and mirrored; the scan
\* goes on to the entry search when there are order blocks and no position
WorkerScan ==
    /\ wk.pc = "scan"
    /\ \E candidate \in (IF wk.placed < MaxOrders THEN BOOLEAN ELSE {FALSE}),
          positionOK \in BOOLEAN :
         LET position == get_position(mkt, positionOK)
             has_position == position.contracts # 0 /\ position.entryPrice > 0
             searching == candidate /\ ~has_position
         IN  /\ exFaults + B2N(~positionOK) <= MaxFaults
             /\ exFaults' = exFaults + B2N(~positionOK)
             /\ positions' = update_position(positions, WorkSymbol, position)
             /\ trades' = update_position_history(trades, positions, WorkSymbol, position)
             /\ wk' = IF searching THEN [wk EXCEPT !.pc = "entry"]
                      ELSE [wk EXCEPT !.pc = "top", !.n = @ + 1]
    /\ UNCHANGED <<book, cached, mkt, pending, storeVars, notWork>>

\* lines 1020-1078: the pending order of the symbol is checked, then the open
\* orders are cancelled and the limit entry is placed
WorkerEntry ==
    /\ wk.pc = "entry"
    /\ \E statusOK \in BOOLEAN, cancelAllOK \in BOOLEAN, run \in PlaceRuns :
         LET pend == get_pending_order(pending, WorkSymbol)
             order_status == get_order_status(mkt, pend.order_id, statusOK)
             stillOpen == /\ pend # NoPending
                          /\ order_status # NoStatus /\ order_status.status = "open"
             faults == (IF pend # NoPending THEN B2N(~statusOK) ELSE 0)
                       + (IF ~stillOpen THEN B2N(~cancelAllOK) + B2N(run # CleanRun)
                          ELSE 0)
             c == cancel_all_orders(book, mkt, WorkSymbol, cancelAllOK)
             formatted == format_order_params(EntryParams)
             placed == run.result # NoneResult
             id == FreshId(c.book, cached)
             p1 == IF pend # NoPending THEN remove_pending_order(pending, WorkSymbol)
                   ELSE pending
         IN  /\ pend = NoPending => statusOK
             /\ stillOpen => (cancelAllOK /\ run = CleanRun)
             /\ exFaults + faults <= MaxFaults
             /\ exFaults' = exFaults + faults
             /\ IF stillOpen
                THEN /\ UNCHANGED <<book, mkt, pending, metrics>>
                     /\ logLen' = IF wk.logged = pend.order_id THEN logLen
                                  ELSE add_reconciliation_log(logLen)
                     /\ wk' = [wk EXCEPT !.pc = "top", !.n = @ + 1,
                                         !.logged = pend.order_id]
                ELSE /\ logLen' = LogIf(logLen, pend # NoPending)
                     /\ book' = IF placed
                                THEN Append(c.book,
                                            NewOrder(id, WorkSymbol, "limit",
                                                     formatted.entry_price,
                                                     formatted.quantity, FALSE))
                                ELSE c.book
                     /\ mkt' = IF placed
                              THEN [c.mkt EXCEPT !.entry = [id |-> id,
                                                           amount |-> formatted.quantity,
                                                           filled |-> 0, status |-> "open"]]
                              ELSE c.mkt
                     /\ pending' = IF placed
                                   THEN add_pending_order(p1, WorkSymbol, id, EntryParams, now)
                                   ELSE p1
                     /\ metrics' = IF placed
                                   THEN [metrics EXCEPT !.placed_orders_count = @ + 1]
                                   ELSE metrics
                     /\ wk' = [wk EXCEPT !.pc = "top", !.n = @ + 1,
                                         !.placed = @ + B2N(placed),
                                         !.logged = LogTracking(@, pending, p1)]
    /\ UNCHANGED <<cached, positions, trades, notWork>>

WorkerNext ==
    \/ EntryFills
    \/ EntryCancelled
    \/ WorkerPeriodic
    \/ WorkerPending
    \/ WorkerRefresh
    \/ WorkerScan
    \/ WorkerEntry

RestartNext ==
    \/ WorkerNext
    \/ Restart

CloseNext ==
    \/ WorkerNext
    \/ PositionCloses

(***************************************************************************)
(* reconcile_position_tp_sl called for a position whose entry order was    *)
(* seen partially filled (main.py 886-911): the pending order carries      *)
(* last_tp_sl_placement and the two legs are on the exchange.              *)
(***************************************************************************)
CooldownTick == 30
MaxClock == 60
MaxReconciles == 2

RclIdle == [n |-> 0, ok |-> FALSE, side |-> "long"]
NsIdle == [impl |-> "utils", x |-> <<>>, once |-> <<>>, twice |-> <<>>, pc |-> "start"]
CycIdle ==
    [pc |-> "top", todo |-> <<>>, tracked |-> {}, held |-> {}, walked |-> {},
     monitored |-> {}, scanned |-> {}, raisedAt |-> {}, n |-> 0, raises |-> 0]
NoBackoff == [until |-> 0, logged |-> FALSE]
NoCall ==
    [at |-> 0, is_long |-> TRUE, computed_tp |-> 0, computed_sl |-> 0, mode |-> "NONE",
     price |-> 0, sl |-> "order", tp |-> "order", close |-> "order"]
SpIdle ==
    [table |-> "absent", entry |-> NoBackoff, n |-> 0, result |-> "none", calls |-> <<>>,
     skips |-> 0, skipped |-> FALSE, last |-> NoCall]
\* the persisted structures: the counters of MetricsInit, the symbols of
\* pending_orders, and the lengths of trade_history and balance_history
DurFresh ==
    [metrics |-> MetricsInit,
     pending_orders |-> {}, trade_history |-> 0, balance_history |-> 0]
DurIdle == [mem |-> DurFresh, file |-> DurFresh, n |-> 0, restarts |-> 0]
RdIdle ==
    [pc |-> "idle", what |-> "none", idx |-> 0, size |-> 0, seen |-> <<>>, vers |-> {},
     result |-> "none", n |-> 0, writes |-> 0]
NoExchangePosition == [contracts |-> 0, side |-> "none", entryPrice |-> 0, markPrice |-> 0]
ItrIdle ==
    [pc |-> "top", n |-> 0, xpos |-> NoExchangePosition, moves |-> 0,
     since |-> {NoExchangePosition}, atRefresh |-> NoExchangePosition]
RlogIdle == [log |-> <<>>, n |-> 0, forced |-> 0]
BalIdle == [history |-> <<>>, file |-> <<>>, n |-> 0, base |-> 0, restarts |-> 0]
\* order_utils.py 13-14: the throttle table and its interval
LOG_THROTTLE_INTERVAL_SECONDS == 60
ThrottleTick == 30
MaxThrottleClock == 90
MaxThrottleCalls == 5
\* (category, symbol) pairs the two throttled loggers are called with
ThrottleInputs ==
    {<<"tp_sl_inconsistent", <<"B", "/", "U", ":", "U">>>>,
     <<"tp_sl_inconsistent", <<"b", "/", "u">>>>,
     <<"tp_sl_inconsistent", <<"E", "/", "U">>>>,
     <<"pending_order_active", <<"B", "/", "U">>>>}
\* key = (category, normalize_symbol(symbol) if symbol else "")
ThrottleKey(category, symbol) ==
    <<category,
      IF symbol = <<>> \/ symbol = NoneSymbol THEN <<>>
      ELSE order_utils_normalize_symbol(symbol)>>
ThrottleKeys == {ThrottleKey(i[1], i[2]) : i \in ThrottleInputs}
\* _log_throttle_state.get(key) is None
NoThrottleEntry == [last_logged |-> -1, count |-> -1]
\* the throttle without its interval test: every call is let through
should_log_throttled_always(state, category, symbol, t) ==
    LET key == ThrottleKey(category, symbol)
        entry == state[key] IN
    IF entry = NoThrottleEntry
    THEN [state |-> [state EXCEPT ![key] = [last_logged |-> t, count |-> 0]],
          should_log |-> TRUE, suppressed |-> 0]
    ELSE [state |-> [state EXCEPT ![key] = [last_logged |-> t, count |-> 0]],
          should_log |-> TRUE, suppressed |-> entry.count]
\* order_utils.should_log_throttled(category, symbol) at time t
should_log_throttled(state, category, symbol, t) ==
    LET key == ThrottleKey(category, symbol)
        entry == state[key] IN
    IF entry = NoThrottleEntry
    THEN [state |-> [state EXCEPT ![key] = [last_logged |-> t, count |-> 0]],
          should_log |-> TRUE, suppressed |-> 0]
    ELSE IF t - entry.last_logged >= LOG_THROTTLE_INTERVAL_SECONDS
    THEN [state |-> [state EXCEPT ![key] = [last_logged |-> t, count |-> 0]],
          should_log |-> TRUE, suppressed |-> entry.count]
    ELSE [state |-> [state EXCEPT ![key].count = entry.count + 1],
          should_log |-> FALSE, suppressed |-> 0]
ThrIdle ==
    [state |-> [k \in ThrottleKeys |-> NoThrottleEntry], clock |-> 0, n |-> 0,
     calls |-> <<>>]
(***************************************************************************)
(* Python floats, as far as risk_manager.py uses them: binary floating     *)
(* point, every operation rounded to the nearest value, ties to even.  A   *)
(* value is m * 2^e with 2^(FlPrecision-1) <= |m| < 2^FlPrecision, or 0.   *)
(* FlPrecision is 53 in CPython; the model keeps the rounding rule and     *)
(* shortens the significand so that products fit the checker's integers.   *)
(***************************************************************************)
FlPrecision == 12
FlZero == [m |-> 0, e |-> 0]
RECURSIVE BitLen(_)
BitLen(n) == IF n = 0 THEN 0 ELSE 1 + BitLen(n \div 2)
RoundHalfEven(n, d) ==
    LET q == n \div d
        r == n % d IN
    IF 2 * r > d \/ (2 * r = d /\ q % 2 = 1) THEN q + 1 ELSE q
\* the float nearest to (n / d) * 2^e, for n >= 0 and d > 0
FlNearest(n, d, e) ==
    IF n = 0 THEN FlZero
    ELSE LET s0 == FlPrecision - (BitLen(n) - BitLen(d))
             Num(k) == IF k >= 0 THEN n * 2^k ELSE n
             Den(k) == IF k >= 0 THEN d ELSE d * 2^(-k)
             k == IF Num(s0) >= Den(s0) * 2^FlPrecision THEN s0 - 1 ELSE s0
             m == RoundHalfEven(Num(k), Den(k)) IN
         IF m = 2^FlPrecision THEN [m |-> 2^(FlPrecision - 1), e |-> e - k + 1]
         ELSE [m |-> m, e |-> e - k]
FlNeg(a) == [a EXCEPT !.m = -a.m]
FlRound(n, d, e) == IF n < 0 THEN FlNeg(FlNearest(-n, d, e)) ELSE FlNearest(n, d, e)
\* float(i), and a decimal literal n/d
FlFromInt(i) == FlRound(i, 1, 0)
FlLiteral(n, d) == FlRound(n, d, 0)
FlMul(a, b) == FlRound(a.m * b.m, 1, a.e + b.e)
FlDiv(a, b) == FlRound(IF b.m < 0 THEN -a.m ELSE a.m, Abs(b.m), a.e - b.e)
FlAdd(a, b) ==
    IF a.m = 0 THEN b
    ELSE IF b.m = 0 THEN a
    ELSE LET e == Min(a.e, b.e) IN
         FlRound(a.m * 2^(a.e - e) + b.m * 2^(b.e - e), 1, e)
FlSub(a, b) == FlAdd(a, FlNeg(b))
\* a <= b
FlLeq(a, b) == FlSub(a, b).m <= 0
FlLess(a, b) == FlSub(a, b).m < 0

(***************************************************************************)
(* The trade planner (risk_manager.py 3-68).                               *)
(***************************************************************************)
RISK_PER_TRADE == 1
\* a plan is not returned
NonePlan == [kind |-> "none"]
NotCalled == [kind |-> "unset"]
NoBlock == [type |-> "none", ob_top |-> 0, ob_bottom |-> 0]
\* the planner with the short side's stop put below the block like the long
\* side's
calculate_trade_params_sl_below(ob, balance) ==
    LET risk_amount ==
            FlMul(FlFromInt(balance), FlDiv(FlFromInt(RISK_PER_TRADE), FlFromInt(100)))
        sl_buffer == FlLiteral(1, 1000)
        rr == FlFromInt(RR_RATIO)
        one == FlFromInt(1)
        Plan(side, entry_price, stop_loss, risk_per_unit, take_profit) ==
            IF FlLeq(risk_per_unit, FlZero) THEN NonePlan
            ELSE [kind |-> "plan", side |-> side, entry_price |-> entry_price,
                  stop_loss |-> stop_loss, take_profit |-> take_profit,
                  quantity |-> FlDiv(risk_amount, risk_per_unit)]
        Bullish ==
            LET entry_price == FlFromInt(ob.ob_top)
                stop_loss == FlMul(FlFromInt(ob.ob_bottom), FlSub(one, sl_buffer))
                risk_per_unit == FlSub(entry_price, stop_loss) IN
            Plan("buy", entry_price, stop_loss, risk_per_unit,
                 FlAdd(entry_price, FlMul(risk_per_unit, rr)))
        Bearish ==
            LET entry_price == FlFromInt(ob.ob_bottom)
                stop_loss == FlMul(FlFromInt(ob.ob_top), FlSub(one, sl_buffer))
                risk_per_unit == FlSub(stop_loss, entry_price) IN
            Plan("sell", entry_price, stop_loss, risk_per_unit,
                 FlSub(entry_price, FlMul(risk_per_unit, rr))) IN
    IF ob.type = "bullish" THEN Bullish ELSE Bearish
\* risk_manager.calculate_trade_params(ob, balance)
calculate_trade_params(ob, balance) ==
    LET risk_amount ==
            FlMul(FlFromInt(balance), FlDiv(FlFromInt(RISK_PER_TRADE), FlFromInt(100)))
        sl_buffer == FlLiteral(1, 1000)
        rr == FlFromInt(RR_RATIO)
        one == FlFromInt(1)
        Plan(side, entry_price, stop_loss, risk_per_unit, take_profit) ==
            IF FlLeq(risk_per_unit, FlZero) THEN NonePlan
            ELSE [kind |-> "plan", side |-> side, entry_price |-> entry_price,
                  stop_loss |-> stop_loss, take_profit |-> take_profit,
                  quantity |-> FlDiv(risk_amount, risk_per_unit)]
        Bullish ==
            LET entry_price == FlFromInt(ob.ob_top)
                stop_loss == FlMul(FlFromInt(ob.ob_bottom), FlSub(one, sl_buffer))
                risk_per_unit == FlSub(entry_price, stop_loss) IN
            Plan("buy", entry_price, stop_loss, risk_per_unit,
                 FlAdd(entry_price, FlMul(risk_per_unit, rr)))
        Bearish ==
            LET entry_price == FlFromInt(ob.ob_bottom)
                stop_loss == FlMul(FlFromInt(ob.ob_top), FlAdd(one, sl_buffer))
                risk_per_unit == FlSub(stop_loss, entry_price) IN
            Plan("sell", entry_price, stop_loss, risk_per_unit,
                 FlSub(entry_price, FlMul(risk_per_unit, rr))) IN
    IF ob.type = "bullish" THEN Bullish ELSE Bearish
\* block prices and free balances the planner is given
PlanPriceBands == {{1, 2, 3}, {98, 100}, {999, 1000, 1001}}
PlanBalances == {0, 1000, 2500}
MaxPlanCalls == 2
PlanIdle == [n |-> 0, ob |-> NoBlock, balance |-> 0, result |-> NotCalled]
(***************************************************************************)
(* The order block detector (lux_algo.py 4-112).  Prices are in tenths; a  *)
(* frame is a sequence of candles, addressed by Python's 0-based index.    *)
(***************************************************************************)
PivotLength == 5
BandPeriod == PivotLength * 10
TailLen == 8
PrefixCandle == [high |-> 700, low |-> 600]
BullishCandles ==
    {[high |-> 500, low |-> 480], [high |-> 520, low |-> 495], [high |-> 530, low |-> 510]}
BearishCandles ==
    {[high |-> 740, low |-> 720], [high |-> 725, low |-> 700], [high |-> 710, low |-> 690]}
\* the candles fetched: BandPeriod quiet candles, then the given ones
Frame(tail) == [i \in 1..BandPeriod |-> PrefixCandle] \o tail
High(df, i) == df[i + 1].high
Low(df, i) == df[i + 1].low
SetMin(S) == CHOOSE x \in S : \A y \in S : x <= y
SetMax(S) == CHOOSE x \in S : \A y \in S : x >= y
\* a band that has no value yet
NaN == -1
\* df['high'].rolling(window=period).max().shift(1) and its counterpart
upper_band(df, i) ==
    IF i < BandPeriod THEN NaN ELSE SetMax({High(df, j) : j \in (i - BandPeriod)..(i - 1)})
lower_band(df, i) ==
    IF i < BandPeriod THEN NaN ELSE SetMin({Low(df, j) : j \in (i - BandPeriod)..(i - 1)})
is_pivot_low(df, i) ==
    Low(df, i) = SetMin({Low(df, j) : j \in (i - PivotLength)..(i + PivotLength)})
is_pivot_high(df, i) ==
    High(df, i) = SetMax({High(df, j) : j \in (i - PivotLength)..(i + PivotLength)})
OrderBlock(df, type, i) ==
    [type |-> type, ob_top |-> High(df, i), ob_bottom |-> Low(df, i), time |-> i,
     confirm_index |-> i + PivotLength]
\* the first loop: the blocks found at candles i, i + 1, ...
RECURSIVE PotentialBlocks(_, _)
PotentialBlocks(df, i) ==
    IF i >= Len(df) - PivotLength THEN <<>>
    ELSE (IF /\ is_pivot_low(df, i)
             /\ lower_band(df, i) # NaN
             /\ Low(df, i) < lower_band(df, i)
          THEN <<OrderBlock(df, "bullish", i)>> ELSE <<>>)
         \o (IF /\ is_pivot_high(df, i)
                /\ upper_band(df, i) # NaN
                /\ High(df, i) > upper_band(df, i)
             THEN <<OrderBlock(df, "bearish", i)>> ELSE <<>>)
         \o PotentialBlocks(df, i + 1)
\* the second loop's test of one block
Unmitigated(df, ob) ==
    LET start_check == ob.confirm_index + 1 IN
    IF start_check >= Len(df) THEN TRUE
    ELSE IF ob.type = "bullish"
    THEN ~\E j \in start_check..(Len(df) - 1) : Low(df, j) <= ob.ob_top
    ELSE ~\E j \in start_check..(Len(df) - 1) : High(df, j) >= ob.ob_bottom
\* the detector without its second loop
detect_order_blocks_unfiltered(df) ==
    LET obs == PotentialBlocks(df, PivotLength) IN
    [obs |-> obs, valid_obs |-> obs]
\* lux_algo.detect_order_blocks(df)
detect_order_blocks(df) ==
    LET obs == PotentialBlocks(df, PivotLength) IN
    [obs |-> obs, valid_obs |-> SelectSeq(obs, LAMBDA ob : Unmitigated(df, ob))]
ObcIdle == [pc |-> "idle", df |-> <<>>, obs |-> <<>>, valid_obs |-> <<>>]
MoreParked ==
    /\ itr = ItrIdle /\ rlog = RlogIdle /\ bal = BalIdle
    /\ thr = ThrIdle /\ plan = PlanIdle /\ obc = ObcIdle
UnitParked ==
    /\ rcl = RclIdle /\ ns = NsIdle /\ cyc = CycIdle /\ sp = SpIdle /\ dur = DurIdle
    /\ rd = RdIdle /\ MoreParked

PartialFilled == 40
CleanPlace == [live |-> TRUE, sl |-> CleanLeg, tp |-> CleanLeg]

\* what risk_manager.calculate_trade_params hands over for a short entry
ShortParams ==
    [side |-> "sell", quantity |-> 100, entry_price |-> 45000, stop_loss |-> 46000,
     take_profit |-> 43000]

\* the worker's state after the iteration that saw the partial fill of an
\* entry placed with params
AfterPartial(params) ==
    LET bk == <<NewOrder(1, WorkSymbol, "limit", params.entry_price, params.quantity,
                         FALSE)>>
        st == [book |-> bk, cached |-> <<>>, metrics |-> MetricsInit, logLen |-> 0,
               pending |-> add_pending_order(<<>>, WorkSymbol, 1, params, 0),
               positions |-> <<>>]
        formatted == format_order_params(params)
    IN  PendingPartial(st, WorkSymbol,
                       place_sl_tp_orders(bk, <<>>, MetricsInit, WorkSymbol,
                                          amount_to_precision(PartialFilled),
                                          formatted.stop_loss, formatted.take_profit,
                                          CleanPlace),
                       PartialFilled, params.quantity - PartialFilled, 0)

\* The position is long or short; its entry order is tracked, or the pending
\* orders were lost with their file (state.py 526-533).
ReconcileInit ==
    /\ \E side \in {"long", "short"}, tracked \in BOOLEAN :
         \E s0 \in {AfterPartial(IF side = "long" THEN EntryParams ELSE ShortParams)} :
           /\ book = s0.book
           /\ cached = s0.cached
           /\ metrics = s0.metrics
           /\ logLen = s0.logLen
           /\ pending = IF tracked THEN s0.pending ELSE <<>>
           /\ positions = s0.positions
           /\ rcl = [RclIdle EXCEPT !.side = side]
    /\ mkt = [entry |-> [id |-> 1, amount |-> EntryParams.quantity,
                         filled |-> PartialFilled, status |-> "open"],
              size |-> PartialFilled, closes |-> 0]
    /\ wk = WorkIdle
    /\ now = 0 /\ staleRun = StaleRunIdle
    /\ last = LastIdle /\ exFaults = 0
    /\ trades = <<>> /\ monitoring = TRUE /\ mon = MonIdle
    /\ ns = NsIdle /\ cyc = CycIdle /\ sp = SpIdle /\ dur = DurIdle /\ rd = RdIdle
    /\ MoreParked

\* the position as exchange.fetch_positions reports it: unsigned contracts
\* and a side
ReportedPosition(x, side) == [fetch_position(x) EXCEPT !.side = side]

\* A reduce-only order of the position is cancelled on the exchange.
LegLeaves ==
    /\ \E i \in PlacedLegs(book, WorkSymbol) :
         book' = SelectSeq(book, LAMBDA o : o.id # book[i].id)
    /\ UNCHANGED <<cached, last, exFaults, storeVars, staleVars, monVars, workVars,
                   lockVars, retryVars, unitVars>>

\* datetime.now() moves on.
ClockAdvances ==
    /\ now < MaxClock
    /\ now' = now + CooldownTick
    /\ UNCHANGED <<pending, staleRun, bookVars, storeVars, monVars, workVars, lockVars,
                   retryVars, unitVars>>

\* reconcile_position_tp_sl(client, symbol, position, pending) for the
\* position the exchange reports
ReconcileCall ==
    /\ rcl.n < MaxReconciles
    /\ \E cancelOK \in BOOLEAN, place \in PlaceEnvs(MaxFaults - exFaults) :
         LET e == [live |-> place.live, cancelOK |-> cancelOK, place |-> place]
             faults == B2N(~cancelOK) + PlaceFaults(place)
             st == [book |-> book, cached |-> cached, metrics |-> metrics,
                    logLen |-> logLen, pending |-> pending, positions |-> positions]
         IN  /\ exFaults + faults <= MaxFaults
             /\ exFaults' = exFaults + faults
             /\ \E r \in {reconcile_position_tp_sl(st, WorkSymbol,
                                                   ReportedPosition(mkt, rcl.side),
                                                   get_pending_order(pending, WorkSymbol),
                                                   now, e)} :
                  /\ book' = r.st.book
                  /\ cached' = r.st.cached
                  /\ metrics' = r.st.metrics
                  /\ logLen' = r.st.logLen
                  /\ pending' = r.st.pending
                  /\ positions' = r.st.positions
                  /\ rcl' = [rcl EXCEPT !.n = @ + 1, !.ok = r.ok]
    /\ UNCHANGED <<last, now, staleRun, trades, monitoring, mon, workVars, lockVars,
                   retryVars, ns, cyc, sp, dur, rd, moreVars>>

ReconcileNext ==
    \/ LegLeaves
    \/ ClockAdvances
    \/ ReconcileCall

(***************************************************************************)
(* normalize_symbol (utils.py 37-69, order_utils.py 17-36) applied to a    *)
(* symbol and to its own result.                                           *)
(***************************************************************************)
MaxSymbolLen == 3
SymbolChars == {"B", "b", " ", ":"}
SymbolInputs ==
    {NoneSymbol} \cup UNION {[1..n -> SymbolChars] : n \in 0..MaxSymbolLen}

NormalizeWith(impl, x) ==
    IF impl = "utils" THEN normalize_symbol(x) ELSE order_utils_normalize_symbol(x)

NormalizeInit ==
    ns \in [impl : {"utils", "order_utils"}, x : SymbolInputs, once : {<<>>},
            twice : {<<>>}, pc : {"start"}]

\* normalize_symbol(x)
NormalizeOnce ==
    /\ ns.pc = "start"
    /\ ns' = [ns EXCEPT !.once = NormalizeWith(ns.impl, ns.x), !.pc = "once"]
    /\ UNCHANGED <<rcl, cyc, sp, dur, rd, moreVars, lockVars, storeVars, retryVars, bookVars, staleVars,
                   monVars, workVars>>

\* normalize_symbol(normalize_symbol(x))
NormalizeAgain ==
    /\ ns.pc = "once"
    /\ ns' = [ns EXCEPT !.twice = NormalizeWith(ns.impl, ns.once), !.pc = "twice"]
    /\ UNCHANGED <<rcl, cyc, sp, dur, rd, moreVars, lockVars, storeVars, retryVars, bookVars, staleVars,
                   monVars, workVars>>

NormalizeNext ==
    \/ NormalizeOnce
    \/ NormalizeAgain

(***************************************************************************)
(* One cycle of run_bot_logic over its symbols (main.py 820-1084): the     *)
(* walk over the pending orders, the breach monitor and the entry scan,    *)
(* with the try blocks that surround them.  A step of a loop processes one *)
(* symbol and returns, or a call in it raises (format_order_params at 847  *)
(* and 1067, prepare_dataframe, detect_order_blocks, calculate_trade_      *)
(* params; in the monitor any call inside the inner try).                  *)
(***************************************************************************)
MaxCycles == 2
MaxRaises == 2
TRADING_PAIRS == <<SymShort, SymOther>>
PairSet == {TRADING_PAIRS[i] : i \in 1..Len(TRADING_PAIRS)}

\* list(d.keys()) for the symbols in S, in the order of TRADING_PAIRS
KeysOf(S) == SelectSeq(TRADING_PAIRS, LAMBDA x : x \in S)

CycleInit ==
    \E tracked \in SUBSET PairSet, held \in SUBSET PairSet :
        cyc = [CycIdle EXCEPT !.tracked = tracked, !.held = held]

\* line 832: the cycle starts its walk over the pending orders
CycleStart ==
    /\ cyc.pc = "top"
    /\ cyc.n < MaxCycles
    /\ cyc' = [cyc EXCEPT !.pc = "pending", !.todo = KeysOf(cyc.tracked), !.walked = {},
                          !.monitored = {}, !.scanned = {}, !.raisedAt = {}]
    /\ UNCHANGED notCyc

\* lines 833-919: one pending order; an exception leaves the try of line 821
PendingSymbol ==
    /\ cyc.pc = "pending" /\ cyc.todo # <<>>
    /\ \E raised \in BOOLEAN :
         /\ raised => cyc.raises < MaxRaises
         /\ cyc' = IF raised
                   THEN [cyc EXCEPT !.pc = "except", !.todo = <<>>,
                                    !.raisedAt = @ \cup {Head(cyc.todo)},
                                    !.raises = @ + 1]
                   ELSE [cyc EXCEPT !.todo = Tail(@), !.walked = @ \cup {Head(cyc.todo)}]
    /\ UNCHANGED notCyc

\* lines 921-938: balance, open orders, enrichment; monitor_and_close_positions
\* lists the mirrored positions (main.py 604-609)
MonitorStart ==
    /\ cyc.pc = "pending" /\ cyc.todo = <<>>
    /\ cyc' = [cyc EXCEPT !.pc = "monitor", !.todo = KeysOf(cyc.held)]
    /\ UNCHANGED notCyc

\* main.py 611-726: one position; an exception is caught by the inner try
\* (719-726), logged, and the loop continues
MonitorSymbol ==
    /\ cyc.pc = "monitor" /\ cyc.todo # <<>>
    /\ \E raised \in BOOLEAN :
         /\ raised => cyc.raises < MaxRaises
         /\ cyc' = IF raised
                   THEN [cyc EXCEPT !.todo = Tail(@),
                                    !.raisedAt = @ \cup {Head(cyc.todo)},
                                    !.raises = @ + 1]
                   ELSE [cyc EXCEPT !.todo = Tail(@),
                                    !.monitored = @ \cup {Head(cyc.todo)}]
    /\ UNCHANGED notCyc

\* line 940: the scan starts over utils.get_trading_pairs()
ScanStart ==
    /\ cyc.pc = "monitor" /\ cyc.todo = <<>>
    /\ cyc' = [cyc EXCEPT !.pc = "scan", !.todo = TRADING_PAIRS]
    /\ UNCHANGED notCyc

\* lines 941-1076: one symbol; an exception leaves the try of line 821
ScanSymbol ==
    /\ cyc.pc = "scan" /\ cyc.todo # <<>>
    /\ \E raised \in BOOLEAN :
         /\ raised => cyc.raises < MaxRaises
         /\ cyc' = IF raised
                   THEN [cyc EXCEPT !.pc = "except", !.todo = <<>>,
                                    !.raisedAt = @ \cup {Head(cyc.todo)},
                                    !.raises = @ + 1]
                   ELSE [cyc EXCEPT !.todo = Tail(@), !.scanned = @ \cup {Head(cyc.todo)}]
    /\ UNCHANGED notCyc

\* lines 1080-1084: time.sleep(120) at the end of the try, or in its except
CycleSleep ==
    /\ \/ cyc.pc = "scan" /\ cyc.todo = <<>>
       \/ cyc.pc = "except"
    /\ cyc' = [cyc EXCEPT !.pc = "sleep"]
    /\ UNCHANGED notCyc

\* line 820: while True
CycleAgain ==
    /\ cyc.pc = "sleep"
    /\ cyc' = [cyc EXCEPT !.pc = "top", !.n = @ + 1]
    /\ UNCHANGED notCyc

CycleNext ==
    \/ CycleStart
    \/ PendingSymbol
    \/ MonitorStart
    \/ MonitorSymbol
    \/ ScanStart
    \/ ScanSymbol
    \/ CycleSleep
    \/ CycleAgain

(***************************************************************************)
(* order_utils: the backoff table and safe_place_tp_sl (order_utils.py     *)
(* 183-326).  BotState declares no tp_sl_backoff (state.py 26-50): the     *)
(* attribute exists once something has assigned it, as the setUp of        *)
(* tests/test_order_utils.py does.  The table is kept for one symbol.      *)
(***************************************************************************)
TP_SL_BUFFER_TICKS == 1
TP_SL_PENDING_BACKOFF_SECONDS == 60
MaxSafeCalls == 3

\* round_to_tick(value, tick_size): ROUND_HALF_UP to a multiple of the tick
round_to_tick(value, tick_size) ==
    IF tick_size <= 0 THEN value
    ELSE ((2 * value + tick_size) \div (2 * tick_size)) * tick_size

\* set_backoff(symbol): the entry it writes
set_backoff(t) == [until |-> t + TP_SL_PENDING_BACKOFF_SECONDS, logged |-> FALSE]

check_backoffNever(entry, t) == [active |-> FALSE, remaining |-> 0, entry |-> entry]

\* check_backoff(symbol): (active, remaining), and the entry it leaves
check_backoff(entry, t) ==
    IF entry = NoBackoff THEN [active |-> FALSE, remaining |-> 0, entry |-> entry]
    ELSE IF entry.until - t > 0
    THEN [active |-> TRUE, remaining |-> entry.until - t, entry |-> entry]
    ELSE [active |-> FALSE, remaining |-> 0, entry |-> NoBackoff]

\* lines 292-299: tp_crossed or sl_crossed, on the rounded targets
Crossed(c) ==
    LET buffer == PriceTick * TP_SL_BUFFER_TICKS
        rounded_tp == round_to_tick(c.computed_tp, PriceTick)
        rounded_sl == round_to_tick(c.computed_sl, PriceTick)
    IN  IF c.is_long
        THEN rounded_tp <= c.price + buffer \/ rounded_sl >= c.price - buffer
        ELSE rounded_tp >= c.price - buffer \/ rounded_sl <= c.price + buffer

\* lines 303-310: the fallback for crossed targets
CrossedFallback(c) ==
    LET fallback_mode == IF c.mode \in {"MARKET_REDUCE", "NONE"} THEN c.mode
                         ELSE "MARKET_REDUCE"
    IN  IF fallback_mode = "MARKET_REDUCE"
        THEN [calls |-> <<[op |-> "close", price |-> 0]>>, result |-> c.close = "order"]
        ELSE [calls |-> <<>>, result |-> FALSE]

\* lines 311-323: SL, then TP if the SL was placed; an exception ends the try
PlaceConditionals(c) ==
    LET sl_call == [op |-> "sl", price |-> round_to_tick(c.computed_sl, PriceTick)]
        tp_call == [op |-> "tp", price |-> round_to_tick(c.computed_tp, PriceTick)]
    IN  IF c.sl # "order" THEN [calls |-> <<sl_call>>, result |-> FALSE]
        ELSE [calls |-> <<sl_call, tp_call>>, result |-> c.tp = "order"]

\* lines 324-326: the finally clause and the return
SetBackoffAndReturn(r, entry, skips, t) ==
    [entry |-> set_backoff(t), skips |-> 0, calls |-> r.calls,
     result |-> IF r.result THEN "true" ELSE "false"]

\* safe_place_tp_sl(client, symbol, is_long, amount, computed_tp, computed_sl)
\* with the table in place; c carries the arguments and the exchange's answers
safe_place_tp_sl(entry, skips, t, c) ==
    LET cb == check_backoff(entry, t)
    IN  IF cb.active
        THEN [entry |-> [entry EXCEPT !.logged = TRUE],
              skips |-> IF entry.logged THEN skips ELSE skips + 1,
              calls |-> <<>>, result |-> "false"]
        ELSE IF c.price = 0
        THEN [entry |-> set_backoff(t), skips |-> 0, calls |-> <<>>, result |-> "false"]
        ELSE SetBackoffAndReturn(IF Crossed(c) THEN CrossedFallback(c)
                                 ELSE PlaceConditionals(c),
                                 cb.entry, skips, t)

\* the calls made: a long and a short position, targets off the tick, a mark
\* price that is missing, between the targets, or within the buffer of the TP
SafeCalls(t) ==
    {c \in [at : {t}, is_long : BOOLEAN, computed_tp : {48996, 43000},
            computed_sl : {43000, 46004}, mode : {"MARKET_REDUCE", "NONE", "OTHER"},
            price : {0, 45000, 48990}, sl : {"order", "none", "raises"},
            tp : {"order", "none"}, close : {"order", "none"}] :
        /\ IF c.is_long THEN c.computed_tp = 48996 /\ c.computed_sl = 43000
           ELSE c.computed_tp = 43000 /\ c.computed_sl = 46004
        \* at most one call of the client fails
        /\ B2N(c.sl # "order") + B2N(c.tp # "order") + B2N(c.close # "order") <= 1}

\* state.bot_state.tp_sl_backoff = {}
BackoffTableSet ==
    /\ sp.table = "absent" \/ sp.entry # NoBackoff
    /\ sp' = [SpIdle EXCEPT !.table = "present", !.n = sp.n]
    /\ UNCHANGED <<rcl, ns, cyc, dur, rd, moreVars, lockVars, storeVars, retryVars, bookVars, staleVars,
                   monVars, workVars>>

\* One call of safe_place_tp_sl, to its return or to the AttributeError that
\* check_backoff raises when the table was never assigned.
SafePlaceCall ==
    /\ sp.n < MaxSafeCalls
    /\ \E c \in SafeCalls(now) :
         IF sp.table = "absent"
         THEN sp' = [sp EXCEPT !.n = @ + 1, !.result = "raised", !.calls = <<>>,
                               !.skipped = FALSE, !.last = c]
         ELSE \E r \in {safe_place_tp_sl(sp.entry, sp.skips, now, c)} :
                sp' = [sp EXCEPT !.n = @ + 1, !.result = r.result, !.calls = r.calls,
                                 !.entry = r.entry, !.skips = r.skips,
                                 !.skipped = check_backoff(sp.entry, now).active,
                                 !.last = c]
    /\ UNCHANGED <<rcl, ns, cyc, dur, rd, moreVars, lockVars, storeVars, retryVars, bookVars, staleVars,
                   monVars, workVars>>

SafePlaceNext ==
    \/ BackoffTableSet
    \/ SafePlaceCall
    \/ ClockAdvances

(***************************************************************************)
(* The persisted structures and their files (state.py 503-660): what the   *)
(* worker's operations write in memory, which of the save functions they   *)
(* call, and a restart of the process, which loads the files.  A missing   *)
(* file leaves the structure as constructed, so a file never written is    *)
(* kept as the constructed content.                                        *)
(***************************************************************************)
MaxDurOps == 4
MaxDurRestarts == 1

\* save_metrics(): the counters written to metrics.json
save_metrics(d) ==
    [d EXCEPT !.file.metrics =
        [reconciliation_runs_count |-> d.mem.metrics.reconciliation_runs_count,
         reconciliation_skipped_count |-> d.mem.metrics.reconciliation_skipped_count,
         duplicate_placement_attempts |-> d.mem.metrics.duplicate_placement_attempts,
         pending_order_stale_count |-> d.mem.metrics.pending_order_stale_count,
         cancelled_orders_count |-> d.mem.metrics.cancelled_orders_count,
         filled_orders_count |-> d.mem.metrics.filled_orders_count,
         placed_orders_count |-> d.mem.metrics.placed_orders_count]]

\* load_metrics_on_startup(): the counters read back, key by key
load_metrics_on_startup(f) ==
    [reconciliation_runs_count |-> f.reconciliation_runs_count,
     reconciliation_skipped_count |-> f.reconciliation_skipped_count,
     duplicate_placement_attempts |-> f.duplicate_placement_attempts,
     pending_order_stale_count |-> f.pending_order_stale_count,
     cancelled_orders_count |-> f.cancelled_orders_count,
     filled_orders_count |-> f.filled_orders_count,
     placed_orders_count |-> f.placed_orders_count]

\* save_pending_orders(), save_trade_history(), save_balance_history()
save_pending_orders(d) == [d EXCEPT !.file.pending_orders = d.mem.pending_orders]
save_trade_history(d) == [d EXCEPT !.file.trade_history = d.mem.trade_history]
save_balance_history(d) == [d EXCEPT !.file.balance_history = d.mem.balance_history]

\* what a process started on the files holds in memory
LoadedFrom(f) ==
    [metrics |-> load_metrics_on_startup(f.metrics),
     pending_orders |-> f.pending_orders,
     trade_history |-> f.trade_history,
     balance_history |-> f.balance_history]

DurStep(d) == dur.n < MaxDurOps /\ dur' = [d EXCEPT !.n = dur.n + 1]

\* reconcile_all_positions_tp_sl: the counter of the path taken
DurReconcileAll ==
    /\ \E free \in BOOLEAN :
         DurStep([dur EXCEPT !.mem.metrics = IF free THEN RunPathMetrics(@)
                                             ELSE SkippedPathMetrics(@)])
    /\ UNCHANGED <<rcl, ns, cyc, sp, rd, moreVars, lockVars, storeVars, retryVars, bookVars,
                   staleVars, monVars, workVars>>

\* place_sl_tp_orders reusing one or both legs, called from the fill branch
\* (main.py 850-861, both orders returned) or from reconcile_position_tp_sl
DurPlaceSlTp ==
    /\ \E reused \in 1..2, caller \in {"fill", "reconcile"} :
         LET placed == [dur EXCEPT !.mem.metrics.duplicate_placement_attempts =
                                       @ + reused]
         IN  DurStep(IF caller = "fill"
                     THEN save_metrics([placed EXCEPT
                                            !.mem.metrics.filled_orders_count = @ + 1])
                     ELSE placed)
    /\ UNCHANGED <<rcl, ns, cyc, sp, rd, moreVars, lockVars, storeVars, retryVars, bookVars,
                   staleVars, monVars, workVars>>

\* main.py 1066-1078: the entry order is tracked and counted
DurEntryPlaced ==
    /\ \E symbol \in PairSet \ dur.mem.pending_orders :
         DurStep(save_metrics(
                   [save_pending_orders([dur EXCEPT !.mem.pending_orders =
                                                        @ \cup {symbol}])
                      EXCEPT !.mem.metrics.placed_orders_count = @ + 1]))
    /\ UNCHANGED <<rcl, ns, cyc, sp, rd, moreVars, lockVars, storeVars, retryVars, bookVars,
                   staleVars, monVars, workVars>>

\* main.py 914-919: the entry order was cancelled on the exchange
DurEntryCancelled ==
    /\ \E symbol \in dur.mem.pending_orders :
         DurStep(save_pending_orders(
                   [save_metrics([dur EXCEPT !.mem.metrics.cancelled_orders_count =
                                                 @ + 1])
                      EXCEPT !.mem.pending_orders = @ \ {symbol}]))
    /\ UNCHANGED <<rcl, ns, cyc, sp, rd, moreVars, lockVars, storeVars, retryVars, bookVars,
                   staleVars, monVars, workVars>>

\* state.add_trade(trade)
DurAddTrade ==
    /\ DurStep(save_trade_history([dur EXCEPT !.mem.trade_history = @ + 1]))
    /\ UNCHANGED <<rcl, ns, cyc, sp, rd, moreVars, lockVars, storeVars, retryVars, bookVars,
                   staleVars, monVars, workVars>>

\* state.update_full_balance(total, free, used)
DurBalance ==
    /\ DurStep(save_balance_history([dur EXCEPT !.mem.balance_history = @ + 1]))
    /\ UNCHANGED <<rcl, ns, cyc, sp, rd, moreVars, lockVars, storeVars, retryVars, bookVars,
                   staleVars, monVars, workVars>>

\* The process stops between two operations and starts again: state.init()
\* loads the files.
DurRestart ==
    /\ dur.restarts < MaxDurRestarts
    /\ dur' = [dur EXCEPT !.mem = LoadedFrom(dur.file), !.restarts = @ + 1]
    /\ UNCHANGED <<rcl, ns, cyc, sp, rd, moreVars, lockVars, storeVars, retryVars, bookVars,
                   staleVars, monVars, workVars>>

DurNext ==
    \/ DurReconcileAll
    \/ DurPlaceSlTp
    \/ DurEntryPlaced
    \/ DurEntryCancelled
    \/ DurAddTrade
    \/ DurBalance
    \/ DurRestart

(***************************************************************************)
(* An HTTP handler reading a container of bot_state while the worker       *)
(* thread writes it (api.py 58-84, state.py 128-206 and 332-336).          *)
(* get_balance iterates state.bot_state.positions.values() in a generator; *)
(* get_trades returns state.bot_state.trade_history itself, which the      *)
(* response encoder then iterates.  A step of the reader is one next() of  *)
(* the iterator: the dict iterator raises RuntimeError when the size of    *)
(* the dict differs from the size at its creation, the list iterator reads *)
(* by index.  The worker's writes run between the steps.  The values of    *)
(* the dict are taken in the order of TRADING_PAIRS.                       *)
(***************************************************************************)
MaxReaderWrites == 3
MaxReads == 2
MaxRows == 2

\* list(ps.values())
ValuesOf(ps) ==
    LET keys == KeysOf(DOMAIN ps)
    IN  [i \in 1..Len(keys) |-> ps[keys[i]]]

\* the object the handler iterates, as it is now
Iterated(what, ps, th) == IF what = "get_balance" THEN ValuesOf(ps) ELSE th

ReaderPositions ==
    {pos \in ExchangePositions : pos.side = "none" /\ pos.markPrice \in {0, 46000}}

\* the reader's record after a write of the worker: the version the
\* container has now joins those it has had since the iteration began
AfterWrite(ps, th) ==
    [rd EXCEPT !.writes = @ + 1,
               !.vers = IF rd.pc = "iter" THEN @ \cup {Iterated(rd.what, ps, th)}
                        ELSE @]

\* state.update_position(symbol, position): bot_state.positions[symbol] is
\* assigned or deleted, and the OPEN row of trade_history is closed, in the
\* objects bot_state holds
WorkerUpdatePosition ==
    /\ rd.writes < MaxReaderWrites
    /\ \E symbol \in PairSet, pos \in ReaderPositions :
         /\ positions' = update_position(positions, symbol, pos)
         /\ trades' = update_position_history(trades, positions, symbol, pos)
    /\ rd' = AfterWrite(positions', trades')
    /\ UNCHANGED <<monitoring, mon, rcl, ns, cyc, sp, dur, moreVars, lockVars, storeVars, retryVars,
                   bookVars, staleVars, workVars>>

\* state.add_trade(trade): bot_state.trade_history.insert(0, trade)
WorkerAddTrade ==
    /\ rd.writes < MaxReaderWrites
    /\ Len(trades) < MaxRows
    /\ \E symbol \in PairSet :
         trades' = add_trade(trades, [symbol |-> symbol, side |-> "BUY",
                                      entry_price |-> EntryParams.entry_price,
                                      exit_price |-> 0, size |-> EntryParams.quantity,
                                      status |-> "OPEN",
                                      take_profit |-> EntryParams.take_profit,
                                      stop_loss |-> EntryParams.stop_loss])
    /\ rd' = AfterWrite(positions, trades')
    /\ UNCHANGED <<positions, monitoring, mon, rcl, ns, cyc, sp, dur, moreVars, lockVars, storeVars,
                   retryVars, bookVars, staleVars, workVars>>

\* the handler creates the iterator over the container bot_state holds
ReaderTake ==
    /\ rd.pc = "idle"
    /\ rd.n < MaxReads
    /\ \E what \in {"get_balance", "get_trades"} :
         rd' = [rd EXCEPT !.pc = "iter", !.what = what, !.idx = 0,
                          !.size = Len(Iterated(what, positions, trades)),
                          !.seen = <<>>,
                          !.vers = {Iterated(what, positions, trades)},
                          !.result = "none", !.n = @ + 1]
    /\ UNCHANGED <<monVars, rcl, ns, cyc, sp, dur, moreVars, lockVars, storeVars, retryVars,
                   bookVars, staleVars, workVars>>

\* one next() of the iterator
ReaderNext ==
    /\ rd.pc = "iter"
    /\ LET cur == Iterated(rd.what, positions, trades)
       IN  rd' = IF rd.what = "get_balance" /\ Len(cur) # rd.size
                 THEN [rd EXCEPT !.pc = "done", !.result = "RuntimeError"]
                 ELSE IF rd.idx < Len(cur)
                 THEN [rd EXCEPT !.seen = Append(@, cur[rd.idx + 1]), !.idx = @ + 1]
                 ELSE [rd EXCEPT !.pc = "done", !.result = "ok"]
    /\ UNCHANGED <<monVars, rcl, ns, cyc, sp, dur, moreVars, lockVars, storeVars, retryVars,
                   bookVars, staleVars, workVars>>

\* the response is sent
ReaderReturn ==
    /\ rd.pc = "done"
    /\ rd' = [rd EXCEPT !.pc = "idle"]
    /\ UNCHANGED <<monVars, rcl, ns, cyc, sp, dur, moreVars, lockVars, storeVars, retryVars,
                   bookVars, staleVars, workVars>>

SharedNext ==
    \/ WorkerUpdatePosition
    \/ WorkerAddTrade
    \/ ReaderTake
    \/ ReaderNext
    \/ ReaderReturn

(***************************************************************************)
(* One iteration of run_bot_logic around the breach monitor (main.py       *)
(* 824-945) for one market: the periodic reconciliation when it is due,    *)
(* the refresh of balance and open orders with the enrichment, the         *)
(* monitor, then the scan, whose get_position/update_position is the       *)
(* refresh of the mirrored position.  Between the steps the exchange moves *)
(* the mark price or closes the position.                                  *)
(***************************************************************************)
MaxItr == 3
MaxMoves == 2
notItr ==
    <<last, exFaults, metrics, monitoring, lockVars, retryVars, staleVars, workVars, rcl,
      ns, cyc, sp, dur, rd, rlog, bal, thr, plan, obc>>

HeldPosition(mark) ==
    [contracts |-> 10, side |-> "long", entryPrice |-> 45000, markPrice |-> mark]

\* the position is open on the exchange with its SL and TP, the mirror of a
\* process just started is empty
ItrInit ==
    /\ itr = [ItrIdle EXCEPT !.xpos = HeldPosition(46000),
                             !.since = {HeldPosition(46000)}]
    /\ book = <<NewOrder(1, WorkSymbol, "STOP_MARKET", 43000, 10, TRUE),
                NewOrder(2, WorkSymbol, "TAKE_PROFIT_MARKET", 49000, 10, TRUE)>>
    /\ cached = <<>> /\ last = LastIdle /\ exFaults = 0
    /\ positions = <<>> /\ trades = <<>> /\ monitoring = TRUE /\ mon = MonIdle

\* The mark price moves, or the position is closed on the exchange.
ExchangeMoves ==
    /\ itr.moves < MaxMoves
    /\ itr.xpos.contracts # 0
    /\ \E x \in {HeldPosition(46000), HeldPosition(49000), NoExchangePosition} \ {itr.xpos} :
         itr' = [itr EXCEPT !.xpos = x, !.moves = @ + 1, !.since = @ \cup {x}]
    /\ UNCHANGED <<positions, trades, book, cached, logLen, mon, notItr>>

\* lines 824-829: the iteration starts; when the reconciliation is due,
\* reconcile_all_positions_tp_sl mirrors each position the exchange reports
\* (line 562)
ItrTop ==
    /\ itr.pc = "top"
    /\ itr.n < MaxItr
    /\ \E due \in BOOLEAN :
         LET reported == due /\ itr.xpos.contracts # 0
         IN  /\ positions' = IF reported
                             THEN update_position(positions, WorkSymbol, itr.xpos)
                             ELSE positions
             /\ logLen' = IF due THEN add_reconciliation_log(logLen) ELSE logLen
    /\ itr' = [itr EXCEPT !.pc = "refresh", !.since = {itr.xpos}]
    /\ UNCHANGED <<trades, book, cached, mon, notItr>>

\* lines 926-935: balance, open orders, enrichment of the mirror
ItrRefresh ==
    /\ itr.pc = "refresh"
    /\ cached' = update_exchange_open_orders(book)
    /\ positions' = enrich_positions_with_tp_sl(positions, cached')
    /\ itr' = [itr EXCEPT !.pc = "monitor", !.atRefresh = itr.xpos]
    /\ UNCHANGED <<trades, book, logLen, mon, notItr>>

\* line 938: monitor_and_close_positions(client); a market close that the
\* exchange fills closes the position it holds
ItrMonitor ==
    /\ itr.pc = "monitor"
    /\ \E env \in [DOMAIN positions ->
                     [live : BOOLEAN, cancelOK : BOOLEAN,
                      run : {CleanRun,
                             CHOOSE r \in PlaceRuns : r.result = NoneResult}]] :
         \E r \in {monitor_and_close_positions(monitoring, positions, book, logLen, env)} :
           /\ book' = r.book
           /\ logLen' = r.logLen
           /\ mon' = [n |-> mon.n + 1, events |-> r.events]
           /\ itr' = [itr EXCEPT
                        !.pc = "scan",
                        !.xpos = IF \E i \in 1..Len(r.events) :
                                       r.events[i].op = "close" /\ r.events[i].ok
                                 THEN NoExchangePosition ELSE @]
    /\ UNCHANGED <<positions, trades, cached, notItr>>

\* lines 940-945: position = client.get_position(symbol);
\* state.update_position(symbol, position)
ItrScan ==
    /\ itr.pc = "scan"
    /\ positions' = update_position(positions, WorkSymbol, itr.xpos)
    /\ trades' = update_position_history(trades, positions, WorkSymbol, itr.xpos)
    /\ itr' = [itr EXCEPT !.pc = "top", !.n = @ + 1]
    /\ UNCHANGED <<book, cached, logLen, mon, notItr>>

ItrNext ==
    \/ ExchangeMoves
    \/ ItrTop
    \/ ItrRefresh
    \/ ItrMonitor
    \/ ItrScan

(***************************************************************************)
(* state.bot_state.reconciliation_log entry by entry (state.py 537-558):   *)
(* add_reconciliation_log and add_forced_closure_log in any mix.  An entry *)
(* carries its action and the number of the call that wrote it.            *)
(***************************************************************************)
MaxLogCalls == 53
MaxForcedCalls == 2

HeadInsertUntrimmed(log, log_entry) == <<log_entry>> \o log

\* reconciliation_log.insert(0, log_entry);
\* reconciliation_log = reconciliation_log[:MAX_RECONCILIATION_LOG_ENTRIES]
HeadInsertTrim(log, log_entry) ==
    SubSeq(<<log_entry>> \o log, 1, Min(Len(log) + 1, MAX_RECONCILIATION_LOG_ENTRIES))

\* state.add_reconciliation_log(action, details)
AddReconciliationLog ==
    /\ rlog.n < MaxLogCalls
    /\ rlog' = [rlog EXCEPT !.n = @ + 1,
                            !.log = HeadInsertTrim(@, [action |-> "reconciliation",
                                                       serial |-> rlog.n + 1])]
    /\ UNCHANGED <<rcl, ns, cyc, sp, dur, rd, itr, bal, thr, plan, obc, lockVars, storeVars,
                   retryVars, bookVars, staleVars, monVars, workVars>>

\* state.add_forced_closure_log(symbol, reason, details)
AddForcedClosureLog ==
    /\ rlog.n < MaxLogCalls
    /\ rlog.forced < MaxForcedCalls
    /\ rlog' = [rlog EXCEPT !.n = @ + 1, !.forced = @ + 1,
                            !.log = HeadInsertTrim(@, [action |-> "forced_closure",
                                                       serial |-> rlog.n + 1])]
    /\ UNCHANGED <<rcl, ns, cyc, sp, dur, rd, itr, bal, thr, plan, obc, lockVars, storeVars,
                   retryVars, bookVars, staleVars, monVars, workVars>>

LogNext ==
    \/ AddReconciliationLog
    \/ AddForcedClosureLog

(***************************************************************************)
(* state.bot_state.balance_history and balance_history.json (state.py      *)
(* 56-78, 642-670).  A point is the number of the update that appended it. *)
(***************************************************************************)
MAX_BALANCE_HISTORY_POINTS == 5000
MaxBalanceUpdates == 40         \* updates made in one behaviour
BalanceStarts == {0, 4970}      \* updates made before it
MaxBalanceRestarts == 1
MaxCorruptAt == 1       \* the file is unreadable only at a start this early

append_balance_point_untrimmed(h, point) == Append(h, point)

\* lines 65-75: append, then keep the MAX_BALANCE_HISTORY_POINTS most recent
append_balance_point(h, point) ==
    LET a == Append(h, point)
    IN  IF Len(a) > MAX_BALANCE_HISTORY_POINTS
        THEN SubSeq(a, Len(a) - MAX_BALANCE_HISTORY_POINTS + 1, Len(a))
        ELSE a

\* load_balance_history_on_startup(): the list in the file, or [] when the
\* file cannot be parsed
load_balance_history_on_startup(f, parsed) == IF parsed THEN f ELSE <<>>

\* the timeline as the updates made so far have left it, saved
BalanceInit ==
    \E k \in BalanceStarts :
        \E h \in {[i \in 1..k |-> i]} :
            bal = [BalIdle EXCEPT !.history = h, !.file = h, !.n = k, !.base = k]

\* state.update_full_balance(total, free, used), with its save
UpdateFullBalance ==
    /\ bal.n < bal.base + MaxBalanceUpdates
    /\ \E h \in {append_balance_point(bal.history, bal.n + 1)} :
         bal' = [bal EXCEPT !.n = @ + 1, !.history = h, !.file = h]
    /\ UNCHANGED <<rcl, ns, cyc, sp, dur, rd, itr, rlog, thr, plan, obc, lockVars,
                   storeVars, retryVars, bookVars, staleVars, monVars, workVars>>

\* The process starts again on the file it wrote.
BalanceRestart ==
    /\ bal.restarts < MaxBalanceRestarts
    /\ \E parsed \in IF bal.n <= bal.base + MaxCorruptAt THEN BOOLEAN ELSE {TRUE} :
         bal' = [bal EXCEPT !.restarts = @ + 1,
                            !.history = load_balance_history_on_startup(bal.file, parsed)]
    /\ UNCHANGED <<rcl, ns, cyc, sp, dur, rd, itr, rlog, thr, plan, obc, lockVars,
                   storeVars, retryVars, bookVars, staleVars, monVars, workVars>>

BalanceNext ==
    \/ UpdateFullBalance
    \/ BalanceRestart

(***************************************************************************)
(* Specifications.                                                         *)
(***************************************************************************)
InitLock == LockInit /\ StoreInit /\ RetryParked /\ BookParked /\ StaleParked /\ MonParked /\ WorkParked
    /\ UnitParked
SpecLock == InitLock /\ [][LockNext]_vars

InitRetry == RetryInit /\ LockParked /\ StoreInit /\ BookParked /\ StaleParked /\ MonParked /\ WorkParked
    /\ UnitParked
SpecRetry == InitRetry /\ [][RetryNext]_vars

InitPlace == BookInit /\ StoreInit /\ LockParked /\ RetryParked /\ StaleParked /\ MonParked /\ WorkParked
    /\ UnitParked
SpecPlace == InitPlace /\ [][BookNext]_vars

InitStale == StaleInit /\ StoreInit /\ LockParked /\ RetryParked /\ BookParked /\ MonParked /\ WorkParked
    /\ UnitParked
SpecStale == InitStale /\ [][StaleNext]_vars

InitMonitor ==
    MonInit /\ BookInit /\ StoreInit /\ LockParked /\ RetryParked /\ StaleParked
    /\ WorkParked /\ UnitParked
SpecMonitor == InitMonitor /\ [][MonitorNext]_vars

InitWorker ==
    WorkInit /\ BookParked /\ StoreInit /\ LockParked /\ RetryParked /\ StaleParked
    /\ MonParked /\ UnitParked
SpecWorker == InitWorker /\ [][WorkerNext]_vars

\* the worker and a restart of its process
SpecRestart == InitWorker /\ [][RestartNext]_vars

\* the worker and the close of its position on the exchange
SpecClose == InitWorker /\ [][CloseNext]_vars

InitReconcile == ReconcileInit /\ LockParked /\ RetryParked

InitNormalize ==
    NormalizeInit /\ rcl = RclIdle /\ cyc = CycIdle /\ sp = SpIdle /\ dur = DurIdle /\ rd = RdIdle /\ LockParked /\ StoreInit /\ RetryParked /\ BookParked
    /\ StaleParked /\ MonParked /\ WorkParked
    /\ MoreParked
SpecNormalize == InitNormalize /\ [][NormalizeNext]_vars

InitSafePlace ==
    sp = SpIdle /\ dur = DurIdle /\ rd = RdIdle /\ rcl = RclIdle /\ ns = NsIdle /\ cyc = CycIdle
    /\ LockParked /\ StoreInit
    /\ RetryParked /\ BookParked /\ StaleParked /\ MonParked /\ WorkParked
    /\ MoreParked
SpecSafePlace == InitSafePlace /\ [][SafePlaceNext]_vars

InitDurable ==
    dur = DurIdle /\ rd = RdIdle /\ rcl = RclIdle /\ ns = NsIdle /\ cyc = CycIdle
    /\ sp = SpIdle /\ LockParked /\ StoreInit /\ RetryParked /\ BookParked
    /\ StaleParked /\ MonParked /\ WorkParked
    /\ MoreParked
SpecDurable == InitDurable /\ [][DurNext]_vars

InitShared ==
    rd = RdIdle /\ dur = DurIdle /\ rcl = RclIdle /\ ns = NsIdle /\ cyc = CycIdle
    /\ sp = SpIdle /\ LockParked /\ StoreInit /\ RetryParked /\ BookParked
    /\ StaleParked /\ MonParked /\ WorkParked
    /\ MoreParked
SpecShared == InitShared /\ [][SharedNext]_vars

InitIteration ==
    /\ ItrInit /\ StoreInit /\ LockParked /\ RetryParked /\ StaleParked /\ WorkParked
    /\ rcl = RclIdle /\ ns = NsIdle /\ cyc = CycIdle /\ sp = SpIdle /\ dur = DurIdle
    /\ rd = RdIdle /\ rlog = RlogIdle /\ bal = BalIdle /\ thr = ThrIdle
    /\ plan = PlanIdle /\ obc = ObcIdle
SpecIteration == InitIteration /\ [][ItrNext]_vars

(***************************************************************************)
(* Throttled logging (order_utils.py 73-108).  thr.calls is the record of  *)
(* the calls made: key, time, and what the call returned.                  *)
(***************************************************************************)
notThr ==
    <<itr, rlog, bal, plan, obc, rcl, ns, cyc, sp, dur, rd, lockVars, storeVars,
      retryVars, bookVars, pending, now, staleRun, monVars, workVars>>

\* one of the throttled loggers asks whether to emit
ShouldLogThrottled ==
    /\ thr.n < MaxThrottleCalls
    /\ \E inp \in ThrottleInputs :
         \E r \in {should_log_throttled(thr.state, inp[1], inp[2], thr.clock)} :
           thr' = [thr EXCEPT !.state = r.state, !.n = @ + 1,
                              !.calls = Append(@, [key |-> ThrottleKey(inp[1], inp[2]),
                                                   symbol |-> inp[2],
                                                   at |-> thr.clock,
                                                   should_log |-> r.should_log,
                                                   suppressed |-> r.suppressed])]
    /\ UNCHANGED notThr

\* datetime.now(timezone.utc) moves on
ThrottleClockAdvances ==
    /\ thr.clock < MaxThrottleClock
    /\ thr' = [thr EXCEPT !.clock = @ + ThrottleTick]
    /\ UNCHANGED notThr

ThrottleNext == ShouldLogThrottled \/ ThrottleClockAdvances

(***************************************************************************)
(* The scan plans an entry for the block it chose (main.py 1014-1017).     *)
(***************************************************************************)
notPlan ==
    <<itr, rlog, bal, thr, obc, rcl, ns, cyc, sp, dur, rd, lockVars, storeVars,
      retryVars, bookVars, pending, now, staleRun, monVars, workVars>>

CalculateTradeParams ==
    /\ plan.n < MaxPlanCalls
    /\ \E type \in {"bullish", "bearish"}, band \in PlanPriceBands, balance \in PlanBalances :
       \E ob_top \in band, ob_bottom \in band :
         \E ob \in {[type |-> type, ob_top |-> ob_top, ob_bottom |-> ob_bottom]} :
           \E r \in {calculate_trade_params(ob, balance)} :
             plan' = [n |-> plan.n + 1, ob |-> ob, balance |-> balance, result |-> r]
    /\ UNCHANGED notPlan

PlanNext == CalculateTradeParams

(***************************************************************************)
(* The scan runs the detector on the candles it fetched (main.py 950-958). *)
(***************************************************************************)
notObc ==
    <<itr, rlog, bal, thr, plan, rcl, ns, cyc, sp, dur, rd, lockVars, storeVars,
      retryVars, bookVars, pending, now, staleRun, monVars, workVars>>

DetectInit ==
    \E candles \in {BullishCandles, BearishCandles} :
      \E tail \in [1..TailLen -> candles] :
        obc = [ObcIdle EXCEPT !.pc = "fetched", !.df = Frame(tail)]

DetectOrderBlocks ==
    /\ obc.pc = "fetched"
    /\ \E r \in {detect_order_blocks(obc.df)} :
         obc' = [obc EXCEPT !.pc = "returned", !.obs = r.obs, !.valid_obs = r.valid_obs]
    /\ UNCHANGED notObc

DetectNext == DetectOrderBlocks

(***************************************************************************)
(* Stale handling against the exchange's order book (main.py 745-797,      *)
(* execution.py 662-678).                                                  *)
(***************************************************************************)
notStaleBook == <<cached, last, exFaults, lockVars, retryVars, monVars, workVars, unitVars>>

\* The worker places a limit entry order and tracks it.
PlaceAndTrackEntry ==
    /\ staleRun.placed < MaxEntries
    /\ \E s \in PendingSymbols \ DOMAIN pending :
         /\ book' = Append(book, NewOrder(staleRun.placed + 1, s, "limit",
                                          EntryParams.entry_price, EntryParams.quantity,
                                          FALSE))
         /\ pending' = add_pending_order(pending, s, staleRun.placed + 1, EntryParams, now)
    /\ staleRun' = [staleRun EXCEPT !.placed = @ + 1]
    /\ UNCHANGED <<now, storeVars, notStaleBook>>

\* The exchange fills or cancels an open entry order.
EntryOrderGone ==
    /\ \E i \in 1..Len(book) : book' = SelectSeq(book, LAMBDA o : o.id # book[i].id)
    /\ UNCHANGED <<staleVars, storeVars, notStaleBook>>

\* client.cancel_order for each stale order in turn; accepted[s] tells whether
\* the request of s gets through to the exchange
RECURSIVE CancelStaleLoop(_, _, _, _)
CancelStaleLoop(r, p, todo, accepted) ==
    IF todo = {} THEN r
    ELSE LET s == CHOOSE x \in todo : TRUE
             c == CancelOnExchange(r.book, p[s].order_id, accepted[s])
         IN  CancelStaleLoop([book |-> c.book,
                              outcomes |-> (s :> (IF c.ok THEN "true" ELSE "false"))
                                              @@ r.outcomes],
                             p, todo \ {s}, accepted)

\* One call of handle_stale_pending_orders with the exchange behind it.
HandleStaleOnExchange ==
    /\ DOMAIN pending # {}
    /\ \E stale \in {get_stale_pending_orders(pending, now, PENDING_ORDER_STALE_SECONDS)} :
         \E accepted \in [stale -> BOOLEAN] :
           \E c \in {CancelStaleLoop([book |-> book, outcomes |-> <<>>], pending, stale,
                                     accepted)} :
             \E r \in {handle_stale_pending_orders(pending, metrics, logLen, now,
                                                   c.outcomes)} :
               /\ book' = c.book
               /\ pending' = r.pending
               /\ metrics' = r.metrics
               /\ logLen' = r.logLen
               /\ staleRun' = [staleRun EXCEPT !.n = 1 - @, !.cancels = r.cancels,
                                               !.outcomes = c.outcomes]
    /\ UNCHANGED <<now, notStaleBook>>

StaleBookNext ==
    \/ PlaceAndTrackEntry
    \/ EntryOrderGone
    \/ Tick
    \/ HandleStaleOnExchange

(***************************************************************************)
(* Startup order reconciliation with more than one open entry order of a   *)
(* symbol (main.py 76-238).                                                *)
(***************************************************************************)
MaxAdoptRuns == 2
\* limit prices of an entry order placed outside this process: at the block
\* the detector reports, and away from it
OutsidePrices == {45000, 40000}

\* the bot placed entry order 1 and tracks it with its plan
AdoptInit ==
    /\ book = <<NewOrder(1, WorkSymbol, "limit", EntryParams.entry_price,
                         EntryParams.quantity, FALSE)>>
    /\ pending = add_pending_order(<<>>, WorkSymbol, 1, EntryParams, 0)
    /\ mkt = [entry |-> [id |-> 1, amount |-> EntryParams.quantity, filled |-> 0,
                         status |-> "open"],
              size |-> 0, closes |-> 0]
    /\ cached = <<>> /\ last = LastIdle /\ exFaults = 0
    /\ wk = WorkIdle /\ now = 0 /\ staleRun = StaleRunIdle
    /\ StoreInit /\ LockParked /\ RetryParked /\ MonParked
    /\ rcl = RclIdle /\ ns = NsIdle /\ cyc = CycIdle /\ sp = SpIdle /\ dur = DurIdle
    /\ rd = RdIdle /\ MoreParked

\* A second limit order of the symbol is open on the exchange (placed by
\* hand, by another instance, or left behind untracked).
SecondOrderAppears ==
    /\ \A i \in 1..Len(book) : book[i].id # 2
    /\ \E price \in OutsidePrices, front \in BOOLEAN :
         \E o \in {NewOrder(2, WorkSymbol, "limit", price, EntryParams.quantity, FALSE)} :
           book' = IF front THEN <<o>> \o book ELSE Append(book, o)
    /\ UNCHANGED <<cached, last, exFaults, pending, now, staleRun, storeVars, lockVars,
                   retryVars, monVars, workVars, unitVars>>

\* The process starts: state.init(), then reconcile_live_orders(client).  The
\* exchange answers the open-order and order-status queries; the candle
\* fetch and the cancel of an unmatched order may fail.
ReconcileLiveOrders ==
    /\ wk.restarts < MaxAdoptRuns
    /\ \E ohlcv \in {"raises", "data"}, ob \in OrderBlocks, cancelOK \in BOOLEAN :
         LET e == [live |-> TRUE, ohlcv |-> ohlcv, obs |-> <<ob>>, cancelOK |-> cancelOK,
                   statusOK |-> TRUE]
             st == [book |-> book, cached |-> cached, metrics |-> metrics,
                    logLen |-> logLen, pending |-> pending, positions |-> positions,
                    trades |-> trades, mkt |-> mkt]
         IN  /\ \E s1 \in {reconcile_live_orders(StateInit(st, TRUE), now, e)} :
                  /\ book' = s1.book
                  /\ cached' = s1.cached
                  /\ metrics' = s1.metrics
                  /\ logLen' = s1.logLen
                  /\ pending' = s1.pending
                  /\ positions' = s1.positions
                  /\ mkt' = s1.mkt
             \* what the run's detect_order_blocks call returned
             /\ obc' = IF ohlcv = "data"
                       THEN [ObcIdle EXCEPT !.pc = "returned", !.valid_obs = <<ob>>]
                       ELSE ObcIdle
    /\ wk' = [wk EXCEPT !.restarts = @ + 1]
    /\ UNCHANGED <<last, exFaults, now, staleRun, trades, monitoring, mon, lockVars,
                   retryVars, rcl, ns, cyc, sp, dur, rd, itr, rlog, bal, thr, plan>>

AdoptNext == SecondOrderAppears \/ ReconcileLiveOrders

Parked6 ==
    /\ rcl = RclIdle /\ ns = NsIdle /\ cyc = CycIdle /\ sp = SpIdle /\ dur = DurIdle
    /\ rd = RdIdle /\ LockParked /\ StoreInit /\ RetryParked /\ BookParked
    /\ StaleParked /\ MonParked /\ WorkParked

InitLog ==
    /\ rlog = RlogIdle /\ itr = ItrIdle /\ bal = BalIdle /\ thr = ThrIdle
    /\ plan = PlanIdle /\ obc = ObcIdle /\ Parked6
SpecLog == InitLog /\ [][LogNext]_vars

InitThrottle ==
    /\ thr = ThrIdle /\ itr = ItrIdle /\ rlog = RlogIdle /\ bal = BalIdle
    /\ plan = PlanIdle /\ obc = ObcIdle /\ Parked6
SpecThrottle == InitThrottle /\ [][ThrottleNext]_vars

InitPlan ==
    /\ plan = PlanIdle /\ itr = ItrIdle /\ rlog = RlogIdle /\ bal = BalIdle
    /\ thr = ThrIdle /\ obc = ObcIdle /\ Parked6
SpecPlan == InitPlan /\ [][PlanNext]_vars

InitDetect ==
    /\ DetectInit /\ itr = ItrIdle /\ rlog = RlogIdle /\ bal = BalIdle
    /\ thr = ThrIdle /\ plan = PlanIdle /\ Parked6
SpecDetect == InitDetect /\ [][DetectNext]_vars

SpecStaleBook == InitStale /\ [][StaleBookNext]_vars

SpecAdopt == AdoptInit /\ [][AdoptNext]_vars

InitBalance ==
    /\ BalanceInit /\ itr = ItrIdle /\ rlog = RlogIdle /\ thr = ThrIdle
    /\ plan = PlanIdle /\ obc = ObcIdle /\ Parked6
SpecBalance == InitBalance /\ [][BalanceNext]_vars

InitCycle ==
    CycleInit /\ rcl = RclIdle /\ ns = NsIdle /\ sp = SpIdle /\ dur = DurIdle /\ rd = RdIdle /\ LockParked /\ StoreInit /\ RetryParked
    /\ BookParked /\ StaleParked /\ MonParked /\ WorkParked
    /\ MoreParked
SpecCycle == InitCycle /\ [][CycleNext]_vars
SpecReconcile == InitReconcile /\ [][ReconcileNext]_vars

(***************************************************************************)
(* Claims.                                                                 *)
(***************************************************************************)

\* C1: reconcile_all_positions_tp_sl is mutually exclusive: at most one
\* invocation is between acquiring and releasing the lock, the lock is held
\* exactly while one is; an invocation that finds the lock held takes the
\* skip path, where it never holds the lock, makes no exchange call, and its
\* return step adds exactly 1 to reconciliation_skipped_count and nothing to
\* reconciliation_runs_count; its return never waits for the lock.
C1_MutualExclusion ==
    /\ Cardinality({t \in Invokers : rpc[t] \in Holding}) <= 1
    /\ \A t \in Invokers : (rpc[t] \in Holding) <=> (reconLock = t)
    /\ \A t \in Invokers :
         rinv[t].skipped =>
            /\ rpc[t] \in {"skip", "idle"}
            /\ rinv[t].calls = 0
            /\ (rpc[t] = "skip" => ENABLED SkipReturn(t))

C1_SkipStep ==
    \A t \in Invokers :
       /\ (rpc[t] = "idle" /\ rpc'[t] = "skip") => (reconLock # 0 /\ reconLock' = reconLock)
       /\ (rpc[t] = "skip" /\ rpc'[t] = "idle") =>
            /\ metrics'.reconciliation_skipped_count
                  = metrics.reconciliation_skipped_count + 1
            /\ metrics'.reconciliation_runs_count = metrics.reconciliation_runs_count

C1_LockSkips == [](C1_MutualExclusion) /\ [][C1_SkipStep]_vars

C1_Witness ==
    \E t, u \in Invokers :
       /\ t # u
       /\ rinv[t].skipped /\ rinv[t].done
       /\ rpc[u] \in Holding
       /\ metrics.reconciliation_skipped_count >= 1

\* x is within 1/den of the target
Within(x, target, den) == x > 0 /\ Abs(x - target) * den <= Max(x, target)

\* the open orders of the symbol's market that are reduce-only legs of a type
MarketLegs(bk, symbol, type) ==
    {i \in 1..Len(bk) : /\ normalize_symbol(bk[i].symbol) = normalize_symbol(symbol)
                        /\ bk[i].reduceOnly
                        /\ bk[i].type = type}

LiveLegMatches(o, price, amount) ==
    Within(o.stopPrice, price, PRICE_TOL_DEN) /\ Within(o.amount, amount, QTY_TOL_DEN)

\* the cached orders of the symbol that are reduce-only legs of a type at the target
CachedLegs(cache, symbol, type, price, amount) ==
    {i \in 1..Len(cache) : /\ cache[i].symbol = symbol
                           /\ cache[i].reduce_only
                           /\ cache[i].type = type
                           /\ Within(cache[i].stop_price, price, PRICE_TOL_DEN)
                           /\ Within(cache[i].amount, amount, QTY_TOL_DEN)}

\* the live fetch of call c would return no order of the market
LiveReturnsNone(bk, c) ==
    \/ ~c.live
    \/ \A i \in 1..Len(bk) : normalize_symbol(bk[i].symbol) # normalize_symbol(c.symbol)

\* The condition of C2 for call c in a state with book bk and cache: a
\* matching reduce-only SL and a matching reduce-only TP are in the live
\* orders, or the live fetch returns none and they are in the cache.
C2_Pre(bk, cache, c) ==
    \/ /\ c.live
       /\ \E i \in MarketLegs(bk, c.symbol, "STOP_MARKET") :
            LiveLegMatches(bk[i], c.sl_price, c.amount)
       /\ \E i \in MarketLegs(bk, c.symbol, "TAKE_PROFIT_MARKET") :
            LiveLegMatches(bk[i], c.tp_price, c.amount)
    \/ /\ LiveReturnsNone(bk, c)
       /\ CachedLegs(cache, c.symbol, "STOP_MARKET", c.sl_price, c.amount) # {}
       /\ CachedLegs(cache, c.symbol, "TAKE_PROFIT_MARKET", c.tp_price, c.amount) # {}

\* the order a call returned for a leg is one that existed before the call
ReturnedExisting(bk, cache, o) ==
    \/ \E i \in 1..Len(bk) : bk[i] = o
    \/ \E i \in 1..Len(cache) :
         /\ cache[i].order_id = o.id
         /\ cache[i].amount = o.amount
         /\ cache[i].stop_price = o.stopPrice

C2_Step ==
    (last.phase = "idle" /\ last'.phase = "returned" /\ C2_Pre(book, cached, last')) =>
        /\ last'.events = <<>>
        /\ book' = book
        /\ metrics'.duplicate_placement_attempts = metrics.duplicate_placement_attempts + 2
        /\ ReturnedExisting(book, cached, last'.result.sl_order)
        /\ ReturnedExisting(book, cached, last'.result.tp_order)
        /\ LiveLegMatches(last'.result.sl_order, last'.sl_price, last'.amount)
        /\ LiveLegMatches(last'.result.tp_order, last'.tp_price, last'.amount)
        /\ C2_Pre(book', cached', last')

\* C2: idempotent placement.  A call of place_sl_tp_orders made while the
\* live orders of the symbol (or the cache, when the live fetch returns
\* none) hold a reduce-only SL and a reduce-only TP matching the targets
\* within tolerance makes no create_order and no cancel call, leaves the
\* exchange's orders as they were, returns orders that existed before it,
\* adds exactly 2 to duplicate_placement_attempts, and leaves the condition
\* in force for the same call made again.
C2_Idempotent == [][C2_Step]_vars

\* a second call in a row has reused both legs, the second one from the cache
C2_Witness ==
    /\ last.phase = "returned"
    /\ last.n = 2
    /\ ~last.live
    /\ C2_Pre(book, cached, last)
    /\ last.events = <<>>
    /\ metrics.duplicate_placement_attempts = 4
    /\ Len(book) = 2

\* The condition of C3 for call c: the live orders hold one SL of the market,
\* not matching the target, and one TP, matching.
C3_Pre(bk, c) ==
    /\ c.live
    /\ Cardinality(MarketLegs(bk, c.symbol, "STOP_MARKET")) = 1
    /\ Cardinality(MarketLegs(bk, c.symbol, "TAKE_PROFIT_MARKET")) = 1
    /\ \A i \in MarketLegs(bk, c.symbol, "STOP_MARKET") :
         ~LiveLegMatches(bk[i], c.sl_price, c.amount)
    /\ \A i \in MarketLegs(bk, c.symbol, "TAKE_PROFIT_MARKET") :
         LiveLegMatches(bk[i], c.tp_price, c.amount)

OldSl(bk, c) == bk[CHOOSE i \in MarketLegs(bk, c.symbol, "STOP_MARKET") : TRUE]
OldTp(bk, c) == bk[CHOOSE i \in MarketLegs(bk, c.symbol, "TAKE_PROFIT_MARKET") : TRUE]

IsSlCreate(ev, c) ==
    /\ ev.op = "create" /\ ev.type = "STOP_MARKET"
    /\ ev.price = c.sl_price /\ ev.amount = c.amount

\* exactly one SL of the market is open, at the target, beside the original TP
OneSlAtTarget(bk, c, tp) ==
    /\ Cardinality(MarketLegs(bk, c.symbol, "STOP_MARKET")) = 1
    /\ \A i \in MarketLegs(bk, c.symbol, "STOP_MARKET") :
         bk[i].stopPrice = c.sl_price /\ bk[i].amount = c.amount
    /\ \E i \in 1..Len(bk) : bk[i] = tp

C3_StepAsStated ==
    (last.phase = "idle" /\ last'.phase = "returned" /\ C3_Pre(book, last')) =>
        /\ Len(last'.events) = 2
        /\ last'.events[1].op = "cancel" /\ last'.events[1].id = OldSl(book, last').id
        /\ IsSlCreate(last'.events[2], last')
        /\ OneSlAtTarget(book', last', OldTp(book, last'))

C3_Step ==
    (last.phase = "idle" /\ last'.phase = "returned" /\ C3_Pre(book, last')) =>
        LET ev == last'.events
            old == OldSl(book, last')
            tp == OldTp(book, last')
            placed == last'.result.sl_order # NoOrder
        IN  /\ Len(ev) >= 2 /\ Len(ev) <= 1 + MAX_ORDER_RETRIES
            /\ ev[1].op = "cancel" /\ ev[1].id = old.id
            /\ \A k \in 2..Len(ev) : IsSlCreate(ev[k], last')
            /\ last'.result.tp_order = tp
            /\ \E i \in 1..Len(book') : book'[i] = tp
            /\ (ev[1].ok /\ placed) => OneSlAtTarget(book', last', tp)
            /\ ~ev[1].ok => \E i \in 1..Len(book') : book'[i] = old
            /\ ~placed =>
                 \A i \in MarketLegs(book', last'.symbol, "STOP_MARKET") : book'[i] = old

HasAge(rec) == CreatedAtStr(rec).iso = "time"
AgeOf(rec, t) == t - CreatedAtStr(rec).t

OlderThanThreshold(p, t) ==
    {s \in DOMAIN p : HasAge(p[s]) /\ AgeOf(p[s], t) > PENDING_ORDER_STALE_SECONDS}

C5_Step ==
    (staleRun'.n # staleRun.n) =>
        LET old == OlderThanThreshold(pending, now)
            Cancelled(s) == {k \in 1..Len(staleRun'.cancels) :
                               staleRun'.cancels[k].symbol = s}
        IN  /\ \A s \in old :
                 /\ Cardinality(Cancelled(s)) = 1
                 /\ \A k \in Cancelled(s) :
                      staleRun'.cancels[k].order_id = pending[s].order_id
                 /\ s \notin DOMAIN pending'
            /\ metrics'.pending_order_stale_count
                  = metrics.pending_order_stale_count + Cardinality(old)
            /\ logLen' = Min(logLen + Cardinality(old), MAX_RECONCILIATION_LOG_ENTRIES)
            /\ \A s \in DOMAIN pending \ old :
                 /\ Cancelled(s) = {}
                 /\ s \in DOMAIN pending' /\ pending'[s] = pending[s]

\* C5: a run of handle_stale_pending_orders attempts cancel_order once for
\* every pending order older than PENDING_ORDER_STALE_SECONDS and, whatever
\* the cancel did (true, false, raised), removes the order, adds exactly 1 to
\* pending_order_stale_count and adds a reconciliation-log entry; younger
\* pending orders are neither cancelled nor removed.
C5_StaleHandling == [][C5_Step]_vars


\* C11: every pending order of the store (the store is keyed by symbol, so a
\* symbol has at most one) has created_at set and has exchange_orders of
\* shape {sl, tp}, also right after loading a file of an older version.
C11_PendingShape ==
    \A s \in DOMAIN pending :
        /\ "created_at" \in DOMAIN pending[s]
        /\ pending[s].created_at # NoTime
        /\ "exchange_orders" \in DOMAIN pending[s]
        /\ DOMAIN pending[s].exchange_orders = {"sl", "tp"}

\* the reduce-only SL and TP orders open on the symbol's market
\* C12: the trade history never holds two OPEN rows for the same symbol.
C12_OneOpenRow ==
    \A i, j \in 1..Len(trades) :
        (trades[i].status = "OPEN" /\ trades[j].status = "OPEN"
           /\ trades[i].symbol = trades[j].symbol) => i = j

SlLegs(bk, symbol) == {i \in PlacedLegs(bk, symbol) : HasSTOP(Upper(bk[i].type))}
TpLegs(bk, symbol) == {i \in PlacedLegs(bk, symbol) : HasTAKE_PROFIT(Upper(bk[i].type))}

C13_Step ==
    \A s \in DOMAIN positions \ DOMAIN positions' :
        /\ mkt.size = 0
        /\ Len(trades') = Len(trades)
        /\ \A i \in 1..Len(trades) :
             IF OpenRows(trades, s) # {} /\ i = FirstOf(OpenRows(trades, s))
             THEN trades'[i] = [trades[i] EXCEPT !.status = "CLOSED",
                                                 !.exit_price = positions[s].mark_price]
             ELSE trades'[i] = trades[i]

\* C13: a position leaves the mirror only in a step in which the exchange
\* holds no contracts of the symbol (a fetch that fails or brings no data
\* removes nothing), and that step closes the most recent OPEN row of
\* the symbol, and no other row, at the mirror's last mark price.
C13_RemovalOnlyOnZero == [][C13_Step]_vars

C14_Step ==
    \A s \in DOMAIN pending \ DOMAIN pending' :
        (wk.pc = "pending" /\ mkt.entry.status = "filled"
           /\ pending[s].order_id = mkt.entry.id) =>
            (SlLegs(book', s) # {} /\ TpLegs(book', s) # {})

\* C14: when the walk over the pending orders sees the entry order filled
\* and removes the pending order, both an SL and a TP order of the symbol
\* are on the exchange; a leg that could not be placed keeps the pending
\* order in place.
C14_RemovedOnceProtected == [][C14_Step]_vars

C15_Step ==
    \A s \in DOMAIN pending :
        (/\ pending[s].order_id = mkt.entry.id
         /\ mkt.entry.status = "filled"
         /\ s \notin DOMAIN pending' \/ pending'[s].order_id # pending[s].order_id
         /\ exFaults' = exFaults) =>
            /\ SlLegs(book', s) # {} /\ TpLegs(book', s) # {}
            /\ Len(trades') = Len(trades) + 1
            /\ trades'[1].symbol = s /\ trades'[1].status = "OPEN"

\* C15: a step of the program that finds the tracked entry order filled
\* (every exchange call of the step answered) and gives up its pending order
\* has placed the SL and the TP of the symbol and has recorded the OPEN
\* trade: no path discards a filled pending order without these steps.
C15_FillStepsInOrder == [][C15_Step]_vars

\* the open entry orders (limit, not reduce-only) of the symbol, by index
EntryOrders(bk, symbol) ==
    {i \in 1..Len(bk) : /\ normalize_symbol(bk[i].symbol) = normalize_symbol(symbol)
                        /\ ~bk[i].reduceOnly /\ bk[i].type = "limit"}

C16_Step ==
    (metrics'.placed_orders_count # metrics.placed_orders_count) =>
        /\ mkt.size = 0
        /\ Cardinality(EntryOrders(book', WorkSymbol)) = 1

\* C16: in a step in which the worker places a limit entry order, the
\* exchange holds no position of the symbol, and after the step the new
\* order is the only open entry order of the symbol.
C16_EntryOnlyWhenFlat == [][C16_Step]_vars

C17_Step ==
    (wk'.restarts # wk.restarts) =>
        \A i \in EntryOrders(book', WorkSymbol) :
            get_pending_order(pending', book'[i].symbol).order_id = book'[i].id

\* C17: after the startup reconciliation every open entry order of the
\* exchange is tracked as the pending order of its symbol: an order that
\* was not tracked has been adopted or cancelled.
C17_NoUntrackedEntry == [][C17_Step]_vars

C18_Step ==
    \A s \in DOMAIN pending :
        (/\ wk'.restarts # wk.restarts /\ wk'.loaded
         /\ pending[s].order_id = mkt.entry.id
         /\ \A i \in 1..Len(book) : book[i].id # pending[s].order_id) =>
            /\ s \notin DOMAIN pending'
                 <=> mkt.entry.status \in {"filled", "canceled", "expired", "rejected"}
            /\ metrics'.filled_orders_count =
                 metrics.filled_orders_count + B2N(mkt.entry.status = "filled")

\* C18: at startup a loaded pending order whose order is not open on the
\* exchange is removed exactly when the order is filled, canceled, expired or
\* rejected (or unknown to the exchange), never because its status could
\* not be queried, and filled_orders_count goes up by one exactly when
\* the order is filled.
C18_OrphanedPending == [][C18_Step]_vars

C19_Step ==
    \A s \in DOMAIN pending \ DOMAIN pending' :
        (wk.pc = "pending" /\ "reconciled" \in DOMAIN pending[s].params
           /\ mkt.entry.status = "filled") =>
            /\ \A i \in SlLegs(book', s) :
                 book'[i].stopPrice > 0 /\ book'[i].stopPrice < pending[s].params.entry_price
            /\ \A i \in TpLegs(book', s) :
                 book'[i].stopPrice > pending[s].params.entry_price

\* C19: when the fill of an adopted (buy) entry order is processed, the SL
\* and TP orders on the exchange have non-zero prices, the SL below the
\* entry price and the TP above it.
C19_AdoptedLegsPriced == [][C19_Step]_vars

C20_Step ==
    (/\ wk.pc = "top"
     /\ metrics'.reconciliation_runs_count # metrics.reconciliation_runs_count
     /\ exFaults' = exFaults
     /\ mkt.size > 0
     /\ Cardinality(SlLegs(book, WorkSymbol)) > 1
          \/ Cardinality(TpLegs(book, WorkSymbol)) > 1) =>
        /\ Cardinality(SlLegs(book', WorkSymbol)) = 1
        /\ Cardinality(TpLegs(book', WorkSymbol)) = 1

\* C20: a reconciliation run, periodic or at startup, with every exchange
\* call answered, that finds a position with several SL or several TP
\* orders leaves exactly one SL and one TP open for the symbol.
C20_OnePerLeg == [][C20_Step]_vars

\* the pending order's last_tp_sl_placement is less than 30 s old
CoolingDown(p, s, t) ==
    /\ s \in DOMAIN p
    /\ "last_tp_sl_placement" \in DOMAIN p[s]
    /\ p[s].last_tp_sl_placement.iso = "time"
    /\ t - p[s].last_tp_sl_placement.t < 30

C21_Step ==
    (rcl'.n # rcl.n /\ (SlLegs(book, WorkSymbol) = {} \/ TpLegs(book, WorkSymbol) = {})) =>
        /\ CoolingDown(pending, WorkSymbol, now) =>
             (rcl'.ok /\ Len(book') <= Len(book))
        /\ (~CoolingDown(pending, WorkSymbol, now) /\ exFaults' = exFaults) =>
             (SlLegs(book', WorkSymbol) # {} /\ TpLegs(book', WorkSymbol) # {})

\* C21: a call of reconcile_position_tp_sl that finds an SL or TP of the
\* position missing returns success and places nothing while the pending
\* order's last_tp_sl_placement is less than 30 s old; once the cooldown has
\* elapsed (and the exchange answers every call) it places the missing legs.
C21_CooldownDeferral == [][C21_Step]_vars

\* the cached reduce-only orders of one type whose symbol normalizes to the
\* position's
CachedLegsOf(cache, s, type) ==
    {i \in 1..Len(cache) : /\ normalize_symbol(cache[i].symbol) = normalize_symbol(s)
                           /\ cache[i].reduce_only /\ cache[i].stop_price # 0
                           /\ Upper(cache[i].type) = type}

\* every open TP/SL order whose symbol normalizes to the position's is
\* returned by the lookup for the position
C22_Lookup ==
    \A s \in DOMAIN positions :
        LET found == get_tp_sl_orders_for_position(get_open_orders(book, s, TRUE), s)
            all == found.sl_orders \o found.tp_orders
        IN  \A i \in PlacedLegs(book, s) : \E k \in 1..Len(all) : all[k] = book[i]

C22_Step ==
    /\ C22_Lookup
    /\ (cached' # cached) =>
         \A s \in DOMAIN positions' :
            /\ CachedLegsOf(cached', s, "STOP_MARKET") # {} =>
                 \E i \in CachedLegsOf(cached', s, "STOP_MARKET") :
                     positions'[s].stop_loss = cached'[i].stop_price
            /\ CachedLegsOf(cached', s, "TAKE_PROFIT_MARKET") # {} =>
                 \E i \in CachedLegsOf(cached', s, "TAKE_PROFIT_MARKET") :
                     positions'[s].take_profit = cached'[i].stop_price

\* C22: orders and positions are matched on normalized symbols: the TP/SL
\* lookup for a mirrored position returns every open TP/SL order whose
\* symbol normalizes to the position's, and the enrichment that follows a
\* refresh of the cached orders gives the position the stop price of such
\* an SL order as stop_loss and of such a TP order as take_profit.
C22_NormalizedMatching == [][C22_Step]_vars

\* C23: normalize_symbol is idempotent: applied to its own result it
\* returns that result, for the implementation in utils and for the one in
\* order_utils, on None, the empty string, and strings with blanks, lower
\* case and ':' separators anywhere.
C23_Idempotent == ns.pc = "twice" => ns.twice = ns.once

C24_Step ==
    (rcl'.n # rcl.n /\ rcl.side = "short") =>
        LET pos == ReportedPosition(mkt, rcl.side)
        IN  \* the mirror takes the explicit side
            /\ update_position(positions, WorkSymbol, pos)[WorkSymbol].side = "SHORT"
            \* legs computed from the position lie on the short side of the entry
            /\ (/\ pending = <<>> /\ PlacedLegs(book, WorkSymbol) = {}
                /\ exFaults' = exFaults) =>
                 /\ SlLegs(book', WorkSymbol) # {} /\ TpLegs(book', WorkSymbol) # {}
                 /\ \A i \in TpLegs(book', WorkSymbol) : book'[i].stopPrice < pos.entryPrice
                 /\ \A i \in SlLegs(book', WorkSymbol) : book'[i].stopPrice > pos.entryPrice

\* C24: the explicit side wins over the sign of the size: a position
\* reported with side short and a positive size is mirrored as SHORT, and
\* reconcile_position_tp_sl, called for it with no pending order and no legs
\* open (every exchange call answered), places a TP below and an SL above the
\* entry price.
C24_ExplicitSideWins == [][C24_Step]_vars

\* C25: when a cycle of the worker reaches its sleep, every symbol other
\* than those whose processing raised has been processed in that cycle: each
\* tracked one walked, each held one monitored, each configured one scanned.
C25_ErrorContained ==
    cyc.pc = "sleep" =>
        /\ cyc.tracked \ cyc.raisedAt \subseteq cyc.walked
        /\ cyc.held \ cyc.raisedAt \subseteq cyc.monitored
        /\ PairSet \ cyc.raisedAt \subseteq cyc.scanned

\* the last call of safe_place_tp_sl got past the backoff check with a mark
\* price
PastBackoff == sp.n > 0 /\ ~sp.skipped /\ sp.last.price # 0

\* C26: a call of safe_place_tp_sl with neither target crossed places the
\* stop-loss first and the take-profit only after the stop-loss placement
\* succeeded; when the SL placement fails or raises, no TP placement is
\* attempted and the call returns false.
C26_SlBeforeTp ==
    (PastBackoff /\ ~Crossed(sp.last)) =>
        /\ sp.calls # <<>>
        /\ sp.calls[1].op = "sl"
        /\ IF sp.last.sl = "order"
           THEN /\ Len(sp.calls) = 2
                /\ sp.calls[2].op = "tp"
                /\ sp.result = IF sp.last.tp = "order" THEN "true" ELSE "false"
           ELSE Len(sp.calls) = 1 /\ sp.result = "false"

\* C27: a call of safe_place_tp_sl whose rounded TP or SL is crossed against
\* the mark price and the buffer places no stop-loss and no take-profit; it
\* submits exactly one market reduce-only close in mode MARKET_REDUCE and no
\* order at all in mode NONE, and the backoff of the symbol is set when the
\* call returns.
C27_CrossedSafeguard ==
    (PastBackoff /\ Crossed(sp.last)) =>
        /\ \A i \in 1..Len(sp.calls) : sp.calls[i].op \notin {"sl", "tp"}
        /\ sp.last.mode = "MARKET_REDUCE" =>
               Len(sp.calls) = 1 /\ sp.calls[1].op = "close"
        /\ sp.last.mode = "NONE" => sp.calls = <<>>
        /\ sp.result \in {"true", "false"}
        /\ sp.entry = set_backoff(sp.last.at)

C28_Step ==
    (sp'.n = sp.n + 1 /\ sp.entry # NoBackoff) =>
        IF sp.entry.until > now
        THEN /\ sp'.calls = <<>>
             /\ sp'.result = "false"
             /\ sp'.skips <= 1
             /\ sp'.entry.until = sp.entry.until
        ELSE /\ ~check_backoff(sp.entry, now).active
             /\ check_backoff(sp.entry, now).entry = NoBackoff
             /\ sp'.entry = set_backoff(now)
             /\ (sp'.last.price # 0 /\ ~Crossed(sp'.last)) =>
                    (sp'.calls # <<>> /\ sp'.calls[1].op = "sl")

\* C28: while the backoff of the symbol has not expired, a call of
\* safe_place_tp_sl places nothing, closes nothing and returns false, and the
\* "skipped" line is logged at most once in the window however many calls are
\* made; once it has expired, check_backoff reports it inactive and clears
\* the entry, and the next call attempts the placement again.
C28_BackoffWindow == [][C28_Step]_vars

\* the third call is the second one skipped in one backoff window
C28_Witness ==
    /\ sp.n = 3
    /\ sp.skipped
    /\ sp.skips = 1
    /\ sp.entry.logged
    /\ sp.entry.until > now

\* C29: between any two operations of the worker, each JSON file holds what
\* the structure it persists holds in memory, so that a restart there
\* reloads the last in-memory values of the pending orders, the metrics
\* counters (reconciliation_runs_count, reconciliation_skipped_count,
\* duplicate_placement_attempts and cancelled_orders_count among them), the
\* trade history and the balance timeline.
C29_Durable == LoadedFrom(dur.file) = dur.mem

\* C30: an HTTP handler that iterates positions or the trade history while
\* the worker writes observes a complete version of the container, one it
\* held at some moment of the iteration: the worker publishes a change by
\* replacing the container and never mutates the object the handler holds.
C30_CompleteVersion ==
    rd.pc = "done" => (rd.result = "ok" /\ rd.seen \in rd.vers)

C31_Step ==
    (itr.pc = "monitor" /\ itr'.pc = "scan") =>
        /\ \A s \in DOMAIN positions :
             \E x \in itr.since :
                 /\ x.contracts # 0
                 /\ positions[s].size = Abs(x.contracts)
                 /\ positions[s].mark_price = x.markPrice
        /\ \A i \in 1..Len(mon'.events) :
             mon'.events[i].op = "close" => itr.atRefresh.contracts # 0

\* C31: when the breach monitor of an iteration runs, the size and the mark
\* price of every mirrored position are what the exchange reported earlier in
\* that iteration, and the monitor submits no forced closure for a position
\* the exchange no longer held at that iteration's refresh.
C31_MonitorOnFreshData == [][C31_Step]_vars

C32_Step ==
    rlog'.n = rlog.n + 1 =>
        /\ Len(rlog.log) <= 50
        /\ Len(rlog'.log) <= 50
        /\ rlog'.log[1].serial = rlog'.n
        /\ Len(rlog'.log) = Min(Len(rlog.log) + 1, 50)
        /\ \A i \in 2..Len(rlog'.log) : rlog'.log[i] = rlog.log[i - 1]

C33_Step ==
    /\ Len(bal'.history) <= 5000
    /\ bal'.n = bal.n + 1 =>
         \E a \in {Append(bal.history, bal'.n)} :
             \E dropped \in {Len(a) - Len(bal'.history)} :
                 /\ dropped = IF Len(a) > 5000 THEN Len(a) - 5000 ELSE 0
                 /\ bal'.history = SubSeq(a, 1 + dropped, Len(a))

C34_Step ==
    thr'.n = thr.n + 1 =>
        LET c == thr'.calls[Len(thr'.calls)]
            same == {i \in 1..Len(thr.calls) : thr.calls[i].key = c.key}
            emits == {i \in same : thr.calls[i].should_log}
            lastEmit == CHOOSE i \in emits : \A j \in emits : j <= i
            since == {i \in same : i > lastEmit} IN
        /\ \A k \in ThrottleKeys \ {c.key} : thr'.state[k] = thr.state[k]
        /\ \A i \in emits :
             c.should_log => c.at - thr.calls[i].at >= LOG_THROTTLE_INTERVAL_SECONDS
        /\ IF emits = {}
           THEN c.should_log /\ c.suppressed = 0
           ELSE IF c.at - thr.calls[lastEmit].at >= LOG_THROTTLE_INTERVAL_SECONDS
           THEN /\ c.should_log
                /\ c.suppressed = Cardinality(since)
                /\ thr'.state[c.key].count = 0
           ELSE /\ ~c.should_log
                /\ thr'.state[c.key].count = thr.state[c.key].count + 1
                /\ thr'.state[c.key].count = Cardinality(since) + 1

\* C34: per (category, normalized symbol) key a call is let through at most
\* once per 60 s; a call inside the interval is refused and adds 1 to the
\* key's suppressed count; the first call after the interval is let through
\* with exactly the number of calls refused since the last emission and sets
\* the count back to 0; other keys are left as they were.
C34_Throttle == [][C34_Step]_vars

\* two spellings of one symbol were refused inside the interval, another
\* category was let through meanwhile, and the call at 60 s reported the two
C34_Witness ==
    /\ Len(thr.calls) = 5
    /\ thr.calls[5].should_log /\ thr.calls[5].suppressed = 2
    /\ thr.calls[5].at - thr.calls[1].at = LOG_THROTTLE_INTERVAL_SECONDS
    /\ thr.calls[1].key = thr.calls[5].key
    /\ \E i, j \in 2..4 :
         /\ thr.calls[i].key = thr.calls[5].key /\ thr.calls[j].key = thr.calls[5].key
         /\ ~thr.calls[i].should_log /\ ~thr.calls[j].should_log
         /\ thr.calls[i].symbol # thr.calls[j].symbol
    /\ \E i \in 2..4 : thr.calls[i].key # thr.calls[5].key /\ thr.calls[i].should_log

\* The values a returned plan holds, as integers in units of 2^e
PlanOn(x, e) == x.m * 2^(x.e - e)
PlanRiskScale(r) == Min(r.entry_price.e, r.stop_loss.e)
PlanScale(r) == Min(PlanRiskScale(r), r.take_profit.e)
\* entry - stop_loss for a long plan, stop_loss - entry for a short one, in
\* units of 2^e
PlanRisk(r, e) ==
    IF r.side = "buy" THEN PlanOn(r.entry_price, e) - PlanOn(r.stop_loss, e)
    ELSE PlanOn(r.stop_loss, e) - PlanOn(r.entry_price, e)
\* take_profit - entry for a long plan, entry - take_profit for a short one
PlanReward(r, e) ==
    IF r.side = "buy" THEN PlanOn(r.take_profit, e) - PlanOn(r.entry_price, e)
    ELSE PlanOn(r.entry_price, e) - PlanOn(r.take_profit, e)
\* reward - RR_RATIO * risk
PlanRewardError(r) == PlanReward(r, PlanScale(r)) - RR_RATIO * PlanRisk(r, PlanScale(r))
\* one unit in the last place of the largest of the plan's prices
PlanUlp(r) ==
    2^(Max(r.entry_price.e, Max(r.stop_loss.e, r.take_profit.e)) - PlanScale(r))
\* balance * RISK_PER_TRADE / 100; the balances of PlanBalances are multiples
\* of 100
PlanRiskAmount(balance) == (balance * RISK_PER_TRADE) \div 100
\* quantity * risk and the risk amount on one integer scale
PlanSpent(r) ==
    LET k == r.quantity.e + PlanRiskScale(r)
        p == r.quantity.m * PlanRisk(r, PlanRiskScale(r)) IN
    IF k >= 0 THEN p * 2^k ELSE p
PlanBudget(r, balance) ==
    LET k == r.quantity.e + PlanRiskScale(r) IN
    IF k >= 0 THEN PlanRiskAmount(balance) ELSE PlanRiskAmount(balance) * 2^(-k)
PlanOrdered(r) ==
    IF r.side = "buy"
    THEN FlLess(r.stop_loss, r.entry_price) /\ FlLess(r.entry_price, r.take_profit)
    ELSE FlLess(r.take_profit, r.entry_price) /\ FlLess(r.entry_price, r.stop_loss)
PlanValidBlock ==
    /\ plan.n > 0
    /\ 0 < plan.ob.ob_bottom /\ plan.ob.ob_bottom <= plan.ob.ob_top
    /\ plan.balance > 0
PlanSideOf(type) == IF type = "bullish" THEN "buy" ELSE "sell"

\* C35 as stated: for a valid block and a positive balance the plan has the
\* block's side, its prices are ordered, reward = RR_RATIO * risk and
\* quantity * risk = balance * RISK_PER_TRADE / 100 hold exactly, and no plan
\* is returned with entry = stop_loss.
C35_PlanExact ==
    /\ PlanValidBlock =>
         /\ plan.result.kind = "plan"
         /\ plan.result.side = PlanSideOf(plan.ob.type)
         /\ PlanOrdered(plan.result)
         /\ PlanRewardError(plan.result) = 0
         /\ PlanSpent(plan.result) = PlanBudget(plan.result, plan.balance)
    /\ plan.result.kind = "plan" => PlanRisk(plan.result, PlanRiskScale(plan.result)) # 0

\* C35: for a valid block and a positive balance the plan has the block's
\* side and ordered prices; reward and RR_RATIO * risk differ by at most two
\* units in the last place of the plan's largest price, quantity * risk and
\* balance * RISK_PER_TRADE / 100 by at most five parts in 2^FlPrecision (the
\* roundings of the float operations); no plan is returned with
\* entry = stop_loss.
C35_PlanRounded ==
    /\ PlanValidBlock =>
         /\ plan.result.kind = "plan"
         /\ plan.result.side = PlanSideOf(plan.ob.type)
         /\ PlanOrdered(plan.result)
         /\ Abs(PlanRewardError(plan.result)) <= 2 * PlanUlp(plan.result)
         /\ Abs(PlanSpent(plan.result) - PlanBudget(plan.result, plan.balance))
              <= (5 * PlanBudget(plan.result, plan.balance)) \div 2^FlPrecision
    /\ plan.result.kind = "plan" => PlanRisk(plan.result, PlanRiskScale(plan.result)) # 0

\* the second call planned a long entry for a valid block, and its
\* quantity * risk is not exactly the risk amount
C35_Witness ==
    /\ plan.n = 2
    /\ PlanValidBlock
    /\ plan.ob.type = "bullish"
    /\ plan.result.kind = "plan" /\ plan.result.side = "buy"
    /\ PlanSpent(plan.result) # PlanBudget(plan.result, plan.balance)

\* the block is among those the call returned
Returned(ob) == \E k \in 1..Len(obc.valid_obs) : obc.valid_obs[k] = ob
\* the candles after the block's confirmation candle
LaterCandles(ob) == {j \in 0..(Len(obc.df) - 1) : j > ob.confirm_index}

\* C36: of the blocks found, a bullish one is returned exactly when no candle
\* after its confirmation candle has low <= ob_top, a bearish one exactly when
\* none has high >= ob_bottom; a block confirmed at the last candle is
\* returned; a bullish block with ob_top 50 is dropped when the second candle
\* after its confirmation has low 49.5.
C36_Mitigation ==
    obc.pc = "returned" =>
        \A i \in 1..Len(obc.obs) :
          LET ob == obc.obs[i] IN
          /\ ob.type = "bullish" =>
               (Returned(ob) <=> \A j \in LaterCandles(ob) : ~(Low(obc.df, j) <= ob.ob_top))
          /\ ob.type = "bearish" =>
               (Returned(ob) <=> \A j \in LaterCandles(ob) : ~(High(obc.df, j) >= ob.ob_bottom))
          /\ ob.confirm_index >= Len(obc.df) - 1 => Returned(ob)
          /\ (/\ ob.type = "bullish" /\ ob.ob_top = 500
              /\ ob.confirm_index + 2 < Len(obc.df)
              /\ Low(obc.df, ob.confirm_index + 2) = 495) => ~Returned(ob)

\* a bullish block with top 50 was found, the candle after its confirmation
\* stayed above it, the next one had low 49.5, and the block was dropped
C36_Witness ==
    /\ obc.pc = "returned"
    /\ \E i \in 1..Len(obc.obs) :
         /\ obc.obs[i].type = "bullish" /\ obc.obs[i].ob_top = 500
         /\ obc.obs[i].confirm_index + 2 = Len(obc.df) - 1
         /\ Low(obc.df, obc.obs[i].confirm_index + 1) > 500
         /\ Low(obc.df, obc.obs[i].confirm_index + 2) = 495
         /\ ~Returned(obc.obs[i])

C37_Held ==
    /\ \A t \in Invokers : rpc[t] \in {"idle", "skip"} => reconLock # t
    /\ (\A t \in Invokers : rpc[t] \notin Holding) => reconLock = 0

C37_Step ==
    \A t \in Invokers :
       /\ (rpc[t] \in Holding /\ rpc'[t] \notin Holding) =>
            /\ rpc[t] = "finally" /\ rpc'[t] = "idle"
            /\ reconLock = t /\ reconLock' = 0
       /\ (rpc[t] = "except" /\ rpc'[t] # "except") => rpc'[t] = "finally"
       /\ (rpc[t] = "idle" /\ rpc'[t] # "idle"
             /\ \A u \in Invokers \ {t} : rpc[u] \notin Holding) =>
            /\ rpc'[t] = "acquired" /\ reconLock' = t
            /\ ~rinv'[t].skipped

\* C37: an invocation that acquired the reconciliation lock leaves only
\* through the finally block, which frees the lock, also after the fetch or a
\* symbol's reconciliation raised; the lock is never held while no invocation
\* runs, so an invocation that starts while no other one runs acquires it and
\* is not skipped, whatever failed before.
C37_LockReleased == [](C37_Held) /\ [][C37_Step]_vars

\* two runs failed, one at the fetch and one inside the loop or both alike,
\* and the invocation started after them holds the lock
C37_Witness ==
    \E t, u \in Invokers :
       /\ t # u
       /\ rinv[t].failed + rinv[u].failed >= 2
       /\ rinv[u].failed >= 1 /\ rinv[u].done /\ rpc[u] = "idle"
       /\ rpc[t] = "acquired" /\ reconLock = t /\ ~rinv[t].skipped

\* the order is open on the exchange
OpenOnExchange(bk, id) == \E i \in 1..Len(bk) : bk[i].id = id

C38_Step ==
    (staleRun'.n # staleRun.n) =>
        \A s \in DOMAIN pending \ DOMAIN pending' :
            ~OpenOnExchange(book', pending[s].order_id)

\* C38: when stale handling removes a pending order from the store, the
\* limit order it tracked is no longer open on the exchange.
C38_NoUntrackedEntry == [][C38_Step]_vars

\* another open entry order of the symbol lies at a block the run's detector
\* returned
SecondQualifies(bk, p, symbol, found) ==
    \E i \in EntryOrders(bk, symbol) :
        /\ bk[i].id # p[symbol].order_id
        /\ found.pc = "returned"
        /\ MatchedOb(found.valid_obs, bk[i].price, OrderSide(bk[i]))

C39_Step ==
    (/\ wk'.restarts # wk.restarts
     /\ WorkSymbol \in DOMAIN pending
     /\ OpenOnExchange(book, pending[WorkSymbol].order_id)
     /\ SecondQualifies(book, pending, WorkSymbol, obc')) =>
        /\ WorkSymbol \in DOMAIN pending'
        /\ pending'[WorkSymbol].order_id = pending[WorkSymbol].order_id
        /\ pending'[WorkSymbol].params = pending[WorkSymbol].params
        /\ \A i \in EntryOrders(book', WorkSymbol) :
             book'[i].id = pending'[WorkSymbol].order_id

\* C39: when the persisted pending order of a symbol is still open on the
\* exchange and a second open limit order of the symbol qualifies for
\* adoption, startup reconciliation leaves the persisted pending order (ID
\* and plan) in the store and leaves no open entry order of the symbol
\* untracked.
C39_AdoptionKeepsPending == [][C39_Step]_vars

C4_Step ==
    (wk'.n # wk.n /\ mkt'.size > 0 /\ mkt'.size = wk.start) =>
        \A i \in PlacedLegs(book', WorkSymbol) :
            Abs(book'[i].amount - mkt'.size) * TP_SL_QUANTITY_TOLERANCE_DEN <= mkt'.size

\* C4: at the end of a worker iteration during which the position size S
\* did not change, every SL and TP order placed for the position has an
\* amount within S * TP_SL_QUANTITY_TOLERANCE of S.
C4_QuantityMatching == [][C4_Step]_vars

\* the mark price has crossed the recorded TP / SL in the position's direction
TpCrossed(p) ==
    /\ p.take_profit # 0
    /\ \/ p.side = "LONG" /\ p.mark_price >= p.take_profit
       \/ p.side = "SHORT" /\ p.mark_price <= p.take_profit

SlCrossed(p) ==
    /\ p.stop_loss # 0
    /\ \/ p.side = "LONG" /\ p.mark_price <= p.stop_loss
       \/ p.side = "SHORT" /\ p.mark_price >= p.stop_loss

\* the mark price lies strictly between SL and TP, in the position's direction
StrictlyBetween(p) ==
    /\ p.take_profit # 0 /\ p.stop_loss # 0
    /\ \/ p.side = "LONG" /\ p.stop_loss < p.mark_price /\ p.mark_price < p.take_profit
       \/ p.side = "SHORT" /\ p.take_profit < p.mark_price /\ p.mark_price < p.stop_loss

\* the close events of a pass for a symbol
ClosesOf(events, s) == {k \in 1..Len(events) : events[k].op = "close" /\ events[k].symbol = s}

C6_Step ==
    (mon'.n # mon.n) =>
        \A s \in DOMAIN positions :
            LET p == positions[s]
                closes == ClosesOf(mon'.events, s)
                breached == monitoring /\ p.mark_price > 0 /\ (TpCrossed(p) \/ SlCrossed(p))
            IN  /\ breached =>
                      /\ Cardinality(closes) = 1
                      /\ \A k \in closes :
                           LET ev == mon'.events[k] IN
                           /\ ev.side = (IF p.side = "LONG" THEN "sell" ELSE "buy")
                           /\ ev.amount = p.size
                           /\ \/ ev.reason = "tp_breach" /\ TpCrossed(p)
                              \/ ev.reason = "sl_breach" /\ SlCrossed(p)
                /\ ~breached => closes = {}
                /\ StrictlyBetween(p) => closes = {}
                /\ (p.take_profit = 0 /\ p.stop_loss = 0) => closes = {}
                /\ ~monitoring => closes = {}

\* C6: in a pass of monitor_and_close_positions a mirrored position (with a
\* known mark price) gets one close_position_market(symbol, opposite side,
\* size, reason) exactly when its mark price has crossed the recorded TP in
\* its direction (reason tp_breach) or the recorded SL (reason sl_breach); no
\* close is submitted for a position whose mark price lies strictly between
\* SL and TP, that has no recorded TP and SL, or while monitoring is disabled.
C6_BreachSafetyNet == [][C6_Step]_vars

\* a pass has closed a SHORT position whose mark price had reached its SL
\* (and not its TP): a buy of the position's size with reason sl_breach
C6_Witness ==
    /\ monitoring
    /\ \E k \in 1..Len(mon.events) :
         /\ mon.events[k].op = "close"
         /\ mon.events[k].reason = "sl_breach"
         /\ mon.events[k].side = "buy"
         /\ mon.events[k].amount = 10
         /\ \E s \in DOMAIN positions :
              /\ s = mon.events[k].symbol
              /\ positions[s].side = "SHORT"
              /\ SlCrossed(positions[s]) /\ ~TpCrossed(positions[s])

\* C7: when a close is submitted on a breach, every SL and TP leg that
\* get_tp_sl_orders_for_position reports for the symbol has been cancelled:
\* none of them is open at the time of the close.
C7_LegsCancelledFirst ==
    \A k \in 1..Len(mon.events) :
        mon.events[k].op = "close" => mon.events[k].legs = {}

\* recorded TP/SL on the wrong side of the entry price for the direction
WrongSide(p) ==
    \/ /\ p.side = "LONG"
       /\ \/ (p.take_profit # 0 /\ p.take_profit <= p.entry_price)
          \/ (p.stop_loss # 0 /\ p.stop_loss >= p.entry_price)
    \/ /\ p.side = "SHORT"
       /\ \/ (p.take_profit # 0 /\ p.take_profit >= p.entry_price)
          \/ (p.stop_loss # 0 /\ p.stop_loss <= p.entry_price)

C8_Step ==
    (mon'.n # mon.n) =>
        \A s \in DOMAIN positions :
            WrongSide(positions[s]) =>
                \A k \in 1..Len(mon'.events) : mon'.events[k].symbol # s

\* C8: a pass of the breach monitor issues no leg cancel and no market close
\* for a position whose recorded TP/SL are on the wrong side of its entry
\* price for its direction, whatever the mark price is.
C8_WrongSideSkipped == [][C8_Step]_vars

\* C10 (as stated): each placement call makes at most 3 create_order attempts;
\* a further attempt is made only after a transient exchange error; a
\* non-transient error ends the call at once with result none (after exactly
\* one attempt when it is the first outcome); a response without a valid
\* order ID is a failure and the caller never receives an order lacking one.
C10_RetryOnlyAfterTransient ==
    call.phase = "returned" =>
       /\ call.attempts <= 3
       /\ \A k \in 1..(call.attempts - 1) : is_transient_error(call.outs[k])
       /\ (call.outs[call.attempts].kind = "error" => call.result = NoneResult)
       /\ (call.outs[1].kind = "error" /\ ~is_transient_error(call.outs[1])
             => call.attempts = 1 /\ call.result = NoneResult)
       /\ (call.result # NoneResult =>
             Truthy(call.result.id) \/ Truthy(call.result.orderId))

\* C10 (amended): as above, except that a further attempt is made after a
\* transient exchange error or after a response without a valid order ID
\* (and only then); a non-transient error at any attempt ends the call there
\* with none; the call returns an order only when the last response carries
\* a valid ID, and none after 3 failed attempts.
C10_RetryPolicy ==
    call.phase = "returned" =>
       /\ call.attempts \in 1..3
       /\ Len(call.creates) = call.attempts
       /\ \A k \in 1..(call.attempts - 1) :
             \/ is_transient_error(call.outs[k])
             \/ (call.outs[k].kind = "resp"
                   /\ (call.outs[k].none
                       \/ (~Truthy(call.outs[k].id) /\ ~Truthy(call.outs[k].orderId))))
       /\ \A k \in 1..call.attempts :
             (call.outs[k].kind = "error" /\ ~is_transient_error(call.outs[k]))
                => (call.attempts = k /\ call.result = NoneResult)
       /\ (call.outs[call.attempts].kind = "error" => call.result = NoneResult)
       /\ (call.result # NoneResult =>
             /\ call.result = call.outs[call.attempts]
             /\ ~call.result.none
             /\ (Truthy(call.result.id) \/ Truthy(call.result.orderId)))
       /\ (call.result = NoneResult /\ call.attempts < 3 =>
             (call.outs[call.attempts].kind = "error"
                /\ ~is_transient_error(call.outs[call.attempts])))

C10_Witness ==
    /\ call.phase = "returned"
    /\ call.attempts = 3
    /\ is_transient_error(call.outs[1])
    /\ call.outs[2].kind = "resp" /\ ~call.outs[2].none /\ call.outs[2].id = "zero"
    /\ call.result # NoneResult

\* C9: when the exchange rejects the reduce-only market close of
\* close_position_market with a reduce-only rejection, the close is retried
\* exactly once without the reduce-only flag; after any other rejection no
\* create_order without the flag is issued.
C9_ReduceOnlyFallback ==
    (call.phase = "returned" /\ call.kind = "close_market") =>
       LET rejected == \E k \in 1..call.attempts : IsReduceOnlyRejection(call.outs[k])
           unflagged == {k \in 1..Len(call.creates) : ~call.creates[k].reduceOnly}
       IN  IF rejected THEN Cardinality(unflagged) = 1 ELSE unflagged = {}

=============================================================================
